---- MODULE Spec2Model ----
(***************************************************************************)
(* Verification model of the enrichment orchestration layer of the        *)
(* political dashboard repository:                                         *)
(*   - the Dedup Ledger (TariffUpdateMerger.merge_updates and the          *)
(*     approval round of TariffAnalyzer.run_analysis),                     *)
(*   - the Credential Pool and Oracle Adapter of ForeignAffairsEnhancer,   *)
(*   - the selective enhancement run of ForeignAffairsEnhancer.            *)
(* Strings whose content the code inspects are sequences of characters.    *)
(***************************************************************************)
EXTENDS Integers, Sequences, FiniteSets, TLC

VARIABLES
    \* ---- Dedup Ledger (tariff_merger.py, tariff_update_merger.py)
    gemini_updates,     \* 'gemini_generated_updates' of gemini_tariff_analysis.json
    clean_updates,      \* 'updates' of tariff_data_clean.json
    lastOp,             \* the ledger operation that ran last
    approved_numbers,   \* the positions the last approval round returned, in order
    \* ---- Credential Pool / Oracle Adapter (affairs_ai.py)
    api_keys,           \* self.api_keys
    current_key_index,  \* self.current_key_index
    exhausted_keys,     \* self.exhausted_keys
    client,             \* key the current genai.Client was built with, or NoClient
    lastResult,         \* outcome of the last generate_with_gemini call
    lastRequests,       \* requests issued by the last call: <<key, exhausted before?>>
    calls,              \* number of generate_with_gemini calls so far
    \* ---- selective enhancement run (affairs_ai.py)
    enhanced_relations,     \* existing_data['enhanced_bilateral_relations']
    countries_to_update,    \* argument of enhance_bilateral_relations_selective
    ci,                     \* position of the country loop
    si,                     \* position of the section loop
    pc,                     \* where the run stands
    skip_all,               \* local skip_all
    updated_country_data,   \* working copy of the current record
    country_updated,        \* local country_updated
    needs_update,           \* result of analyze_section_needs_update
    specific_developments,  \* result of analyze_section_needs_update
    permission,             \* result of ask_user_permission ("none": not asked)
    current_section,        \* content handed to the Merger
    updated_section,        \* content the Merger / Resolver returned
    status,                 \* status the Merger / Resolver returned
    merger_status,          \* status the Merger returned ("none": not invoked)
    gen_identical,          \* the Merger's oracle returned the current content
    force_identical,        \* the Resolver's oracle returned the current content
    forced,                 \* force_section_update was invoked for this field
    changeLog,              \* calls of log_section_changes: <<country, section, status>>
    staleCount,             \* oracle answers UPDATE NEEDED so far
    oracle_answered,        \* some generate_with_gemini call of the run returned text
    oracle_calls,           \* generate_with_gemini calls of the run so far
    analysis_response,      \* the oracle's answer analyze_section_needs_update has just parsed
    evaluated,              \* the (record, field) pairs analyze_section_needs_update was called on
    generated,              \* the oracle's answer enhance_section_selectively has just parsed
    additional_updates,     \* the candidates parsed from the oracle's answer
    update_index,           \* position of the filter loop
    valid_updates,          \* local valid_updates
    verdicts,               \* per candidate: what the two filters returned
    filter_pc               \* where generate_additional_updates stands

ledgerVars == <<gemini_updates, clean_updates, lastOp, approved_numbers>>
credVars == <<api_keys, current_key_index, exhausted_keys, client, lastResult, lastRequests, calls>>
enhVars == <<enhanced_relations, countries_to_update, ci, si, pc, skip_all,
             updated_country_data, country_updated, needs_update, specific_developments,
             permission, current_section, updated_section, status, merger_status,
             gen_identical, force_identical, forced, changeLog, staleCount,
          oracle_answered, oracle_calls, analysis_response, evaluated, generated>>
filterVars == <<additional_updates, update_index, valid_updates, verdicts, filter_pc>>
vars == <<gemini_updates, clean_updates, lastOp, approved_numbers,
          api_keys, current_key_index, exhausted_keys, client, lastResult, lastRequests, calls,
          enhanced_relations, countries_to_update, ci, si, pc, skip_all,
          updated_country_data, country_updated, needs_update, specific_developments,
          permission, current_section, updated_section, status, merger_status,
          gen_identical, force_identical, forced, changeLog, staleCount,
          oracle_answered, oracle_calls, analysis_response, evaluated, generated,
          additional_updates, update_index, valid_updates, verdicts, filter_pc>>

(***************************************************************************)
(* Bounds                                                                  *)
(***************************************************************************)
MaxLedger == 3      \* ledger entries kept in one file
MaxBatch == 2       \* candidates presented in one approval round
MaxCalls == 4       \* generate_with_gemini calls in one run
MaxStale == 1       \* oracle answers UPDATE NEEDED in one enhancement run
MaxCandidates == 2  \* candidates in one answer of the oracle

(***************************************************************************)
(* Characters and strings                                                  *)
(***************************************************************************)
\* str.lower() on one character
LowerChar(c) ==
    CASE c = "A" -> "a"
      [] c = "B" -> "b"
      [] c = "J" -> "j"
      [] c = "M" -> "m"
      [] c = "S" -> "s"
      [] OTHER -> c

\* code point order of the characters that occur in the modelled strings
CharCode(c) ==
    CASE c = " " -> 32
      [] c = "," -> 44
      [] c = "-" -> 45
      [] c = "/" -> 47
      [] c = "0" -> 48
      [] c = "1" -> 49
      [] c = "2" -> 50
      [] c = "3" -> 51
      [] c = "4" -> 52
      [] c = "5" -> 53
      [] c = "6" -> 54
      [] c = "7" -> 55
      [] c = "8" -> 56
      [] c = "9" -> 57
      [] c = "A" -> 65
      [] c = "B" -> 66
      [] c = "J" -> 74
      [] c = "M" -> 77
      [] c = "S" -> 83
      [] c = "a" -> 97
      [] c = "b" -> 98
      [] c = "d" -> 100
      [] c = "e" -> 101
      [] c = "h" -> 104
      [] c = "i" -> 105
      [] c = "j" -> 106
      [] c = "l" -> 108
      [] c = "m" -> 109
      [] c = "n" -> 110
      [] c = "o" -> 111
      [] c = "p" -> 112
      [] c = "r" -> 114
      [] c = "s" -> 115
      [] c = "t" -> 116
      [] c = "u" -> 117
      [] c = "y" -> 121
      [] c = "|" -> 124
      [] OTHER -> 0

\* str.lower()
Lower(s) == [i \in 1..Len(s) |-> LowerChar(s[i])]

RECURSIVE LStrip(_)
LStrip(s) == IF s # <<>> /\ Head(s) = " " THEN LStrip(Tail(s)) ELSE s

RECURSIVE RStrip(_)
RStrip(s) == IF s # <<>> /\ s[Len(s)] = " " THEN RStrip(SubSeq(s, 1, Len(s) - 1)) ELSE s

\* str.strip()
Strip(s) == RStrip(LStrip(s))

\* Python's  a < b  on str: lexicographic by code point
RECURSIVE StrLess(_, _)
StrLess(a, b) ==
    IF b = <<>> THEN FALSE
    ELSE IF a = <<>> THEN TRUE
    ELSE IF CharCode(Head(a)) # CharCode(Head(b)) THEN CharCode(Head(a)) < CharCode(Head(b))
    ELSE StrLess(Tail(a), Tail(b))

(***************************************************************************)
(* Recency Filter: parse_date and is_date_valid                            *)
(***************************************************************************)
IsDigit(c) == CharCode(c) \in 48..57
IsAlpha(c) == CharCode(c) \in (65..90) \cup (97..122)

\* the longest prefix of s made of digits / of letters
RECURSIVE DigitRun(_)
DigitRun(s) ==
    IF s # <<>> /\ IsDigit(Head(s)) THEN <<Head(s)>> \o DigitRun(Tail(s)) ELSE <<>>

RECURSIVE AlphaRun(_)
AlphaRun(s) ==
    IF s # <<>> /\ IsAlpha(Head(s)) THEN <<Head(s)>> \o AlphaRun(Tail(s)) ELSE <<>>

RECURSIVE NumVal(_)
NumVal(run) ==
    IF run = <<>> THEN 0
    ELSE 10 * NumVal(SubSeq(run, 1, Len(run) - 1)) + (CharCode(run[Len(run)]) - 48)

\* the fields strptime sees: runs of digits, runs of letters, single other characters
RECURSIVE Fields(_)
Fields(s) ==
    IF s = <<>> THEN <<>>
    ELSE IF IsDigit(Head(s))
    THEN LET run == DigitRun(s)
         IN <<[k |-> "n", v |-> NumVal(run), w |-> Len(run), s |-> run]>>
            \o Fields(SubSeq(s, Len(run) + 1, Len(s)))
    ELSE IF IsAlpha(Head(s))
    THEN LET run == AlphaRun(s)
         IN <<[k |-> "w", v |-> 0, w |-> Len(run), s |-> run]>>
            \o Fields(SubSeq(s, Len(run) + 1, Len(s)))
    ELSE <<[k |-> Head(s), v |-> 0, w |-> 1, s |-> <<Head(s)>>]>> \o Fields(Tail(s))

Shape(fields) == [i \in 1..Len(fields) |-> fields[i].k]

\* %B: a full month name, matched without regard to case
MonthOf(word) ==
    LET l == Lower(word)
    IN CASE l = <<"a", "p", "r", "i", "l">> -> 4
         [] l = <<"m", "a", "y">> -> 5
         [] l = <<"j", "u", "n", "e">> -> 6
         [] OTHER -> 0

DaysIn(m) == IF m \in {4, 6, 9, 11} THEN 30 ELSE IF m = 2 THEN 28 ELSE 31

None == 0

\* datetime(y, m, d) from matched directives (%Y: four digits, %m and %d: one or two),
\* as the number yyyymmdd; None when strptime raises ValueError
MakeDate(y, m, d) ==
    IF /\ y.k = "n" /\ y.w = 4 /\ y.v >= 1
       /\ m.k = "n" /\ m.w <= 2 /\ m.v \in 1..12
       /\ d.k = "n" /\ d.w <= 2 /\ d.v >= 1 /\ d.v <= DaysIn(m.v)
    THEN y.v * 10000 + m.v * 100 + d.v
    ELSE None

MonthField(f) == [k |-> "n", v |-> MonthOf(f.s), w |-> 1, s |-> <<>>]

\* the formats list of parse_date, in its order
formats ==
    << "%B %d, %Y", "%B %d, %Y", "%B %dst, %Y", "%B %dnd, %Y", "%B %drd, %Y", "%B %dth, %Y",
       "%Y-%m-%d", "%m/%d/%Y", "%d/%m/%Y", "%m-%d-%Y", "%d-%m-%Y", "%Y/%m/%d" >>

Suffix(fmt) ==
    CASE fmt = "%B %dst, %Y" -> <<"s", "t">>
      [] fmt = "%B %dnd, %Y" -> <<"n", "d">>
      [] fmt = "%B %drd, %Y" -> <<"r", "d">>
      [] OTHER -> <<"t", "h">>

\* datetime.strptime(date_string, fmt), None for ValueError
strptime(f, fmt) ==
    LET sh == Shape(f)
    IN CASE fmt = "%B %d, %Y" ->
              IF sh = <<"w", " ", "n", ",", " ", "n">>
              THEN MakeDate(f[6], MonthField(f[1]), f[3]) ELSE None
         [] fmt \in { "%B %dst, %Y", "%B %dnd, %Y", "%B %drd, %Y", "%B %dth, %Y" } ->
              IF sh = <<"w", " ", "n", "w", ",", " ", "n">> /\ f[4].s = Suffix(fmt)
              THEN MakeDate(f[7], MonthField(f[1]), f[3]) ELSE None
         [] fmt = "%Y-%m-%d" ->
              IF sh = <<"n", "-", "n", "-", "n">> THEN MakeDate(f[1], f[3], f[5]) ELSE None
         [] fmt = "%m/%d/%Y" ->
              IF sh = <<"n", "/", "n", "/", "n">> THEN MakeDate(f[5], f[1], f[3]) ELSE None
         [] fmt = "%d/%m/%Y" ->
              IF sh = <<"n", "/", "n", "/", "n">> THEN MakeDate(f[5], f[3], f[1]) ELSE None
         [] fmt = "%m-%d-%Y" ->
              IF sh = <<"n", "-", "n", "-", "n">> THEN MakeDate(f[5], f[1], f[3]) ELSE None
         [] fmt = "%d-%m-%Y" ->
              IF sh = <<"n", "-", "n", "-", "n">> THEN MakeDate(f[5], f[3], f[1]) ELSE None
         [] OTHER ->
              IF sh = <<"n", "/", "n", "/", "n">> THEN MakeDate(f[1], f[3], f[5]) ELSE None

\* the loop over formats: the first format that parses wins
RECURSIVE TryFormats(_, _)
TryFormats(f, i) ==
    IF i > Len(formats) THEN None
    ELSE IF strptime(f, formats[i]) # None THEN strptime(f, formats[i])
    ELSE TryFormats(f, i + 1)

\* TariffAnalyzer.parse_date
parse_date(date_string) ==
    IF date_string = <<>> THEN None ELSE TryFormats(Fields(Strip(date_string)), 1)

\* self.min_update_date = datetime(2025, 4, 2)
min_update_date == 20250402

\* a filter that rejects a date equal to the threshold
is_date_after(date_string) ==
    IF parse_date(date_string) = None THEN FALSE
    ELSE parse_date(date_string) > min_update_date

\* TariffAnalyzer.is_date_valid
is_date_valid(date_string) ==
    IF parse_date(date_string) = None THEN FALSE
    ELSE parse_date(date_string) >= min_update_date

(***************************************************************************)
(* Dedup Ledger                                                            *)
(***************************************************************************)
Title_A == <<"A">>
Title_a_ == <<"a", " ">>
Title_A_B == <<"A", " ", "B">>
Title_A__B == <<"A", " ", " ", "B">>
Date_2025_05_10 == <<"2", "0", "2", "5", "-", "0", "5", "-", "1", "0">>
Date_06_27_2025 == <<"0", "6", "/", "2", "7", "/", "2", "0", "2", "5">>

Update(t, d, p) == [title |-> t, announcement_date |-> d, description |-> p]

\* the update records the oracle and the files draw from: two that differ only in
\* letter case, padding and payload, and two of another date, written month first,
\* that differ only in the blanks between their words
Updates ==
    { Update(Title_A, Date_2025_05_10, "d1"),
      Update(Title_a_, Date_2025_05_10, "d2"),
      Update(Title_A_B, Date_06_27_2025, "d1"),
      Update(Title_A__B, Date_06_27_2025, "d1") }

\* TariffUpdateMerger.normalize_update: f"{title}|{announcement_date}"
normalize_update(u) == Strip(Lower(u.title)) \o <<"|">> \o u.announcement_date

Keys(L) == { normalize_update(L[i]) : i \in 1..Len(L) }
UniqueKeys(L) == \A i, j \in 1..Len(L) : normalize_update(L[i]) = normalize_update(L[j]) => i = j

\* the new_updates loop of merge_updates: candidates whose key is not yet known
RECURSIVE NewUpdates(_, _)
NewUpdates(batch, known) ==
    IF batch = <<>> THEN <<>>
    ELSE LET u == Head(batch)
             k == normalize_update(u)
         IN IF k \in known THEN NewUpdates(Tail(batch), known)
            ELSE <<u>> \o NewUpdates(Tail(batch), known \cup {k})

\* an insertion that puts x in front of the entries with an equal date
RECURSIVE InsertDescFirst(_, _)
InsertDescFirst(x, L) ==
    IF L = <<>> THEN <<x>>
    ELSE IF ~StrLess(x.announcement_date, Head(L).announcement_date)
         THEN <<x>> \o L
         ELSE <<Head(L)>> \o InsertDescFirst(x, Tail(L))

\* insertion of x into a list sorted newest first, after the entries with an equal date
RECURSIVE InsertDesc(_, _)
InsertDesc(x, L) ==
    IF L = <<>> THEN <<x>>
    ELSE IF StrLess(Head(L).announcement_date, x.announcement_date)
         THEN <<x>> \o L
         ELSE <<Head(L)>> \o InsertDesc(x, Tail(L))

\* list.sort(key=announcement_date, reverse=True): stable, equal dates keep their order
RECURSIVE SortDesc(_)
SortDesc(L) ==
    IF L = <<>> THEN <<>>
    ELSE InsertDesc(L[Len(L)], SortDesc(SubSeq(L, 1, Len(L) - 1)))

\* a merge in which a candidate takes the place of the stored entry with its key
merge_overwrite(existing, batch) == SortDesc(NewUpdates(batch \o existing, {}))

\* TariffUpdateMerger.merge_updates: the 'updates' list it stores
merge_updates(existing, batch) == SortDesc(existing \o NewUpdates(batch, Keys(existing)))

\* TariffAnalyzer.create_clean_version, 'updates' part: one clean copy per stored update
create_clean_version(L) ==
    [i \in 1..Len(L) |-> [title |-> L[i].title,
                          announcement_date |-> L[i].announcement_date,
                          description |-> L[i].description]]

\* operator answers of display_updates_for_approval
Answers(n) ==
    { <<"none">>, <<"all">>, <<"invalid">> }
    \cup { <<"numbers", s>> : s \in UNION { [1..k -> 1..(n + 1)] : k \in 1..2 } }

\* TariffAnalyzer.display_updates_for_approval
RECURSIVE SelectValid(_, _)
SelectValid(updates, numbers) ==
    IF numbers = <<>> THEN <<>>
    ELSE IF 1 <= Head(numbers) /\ Head(numbers) <= Len(updates)
         THEN <<updates[Head(numbers)]>> \o SelectValid(updates, Tail(numbers))
         ELSE SelectValid(updates, Tail(numbers))

display_updates_for_approval(updates, answer) ==
    IF updates = <<>> THEN <<>>
    ELSE IF answer[1] = "none" THEN <<>>
    ELSE IF answer[1] = "all" THEN updates
    ELSE IF answer[1] = "invalid" THEN <<>>
    ELSE SelectValid(updates, answer[2])

\* the positions of the presented list that display_updates_for_approval returns:
\* every position for 'all', valid_numbers for a list of numbers
RECURSIVE InRange(_, _)
InRange(n, numbers) ==
    IF numbers = <<>> THEN <<>>
    ELSE IF 1 <= Head(numbers) /\ Head(numbers) <= n
         THEN <<Head(numbers)>> \o InRange(n, Tail(numbers))
         ELSE InRange(n, Tail(numbers))

valid_numbers(updates, answer) ==
    IF updates = <<>> THEN <<>>
    ELSE IF answer[1] = "all" THEN [i \in 1..Len(updates) |-> i]
    ELSE IF answer[1] = "numbers" THEN InRange(Len(updates), answer[2])
    ELSE <<>>

Batches == UNION { [1..k -> Updates] : k \in 0..MaxBatch }

\* run_analysis, approval round: approved candidates are appended and both files saved
RunAnalysis ==
    \E potential_updates \in Batches :
      \E answer \in Answers(Len(potential_updates)) :
        LET user_requested_updates == display_updates_for_approval(potential_updates, answer)
            updated_gemini == gemini_updates \o user_requested_updates
        IN /\ Len(updated_gemini) <= MaxLedger
           /\ IF user_requested_updates # <<>>
              THEN /\ gemini_updates' = updated_gemini
                   /\ clean_updates' = create_clean_version(updated_gemini)
              ELSE UNCHANGED <<gemini_updates, clean_updates>>
           /\ lastOp' = "analysis"
           /\ approved_numbers' = valid_numbers(potential_updates, answer)
           /\ UNCHANGED credVars
           /\ UNCHANGED enhVars
           /\ UNCHANGED filterVars

\* WorldScorecardTariffScraper.save_to_json: the clean file is rewritten from the
\* scraped tables, which carry no 'updates' list
SaveToJson ==
    /\ clean_updates' = <<>>
    /\ lastOp' = "scrape"
    /\ approved_numbers' = <<>>
    /\ UNCHANGED gemini_updates
    /\ UNCHANGED credVars
    /\ UNCHANGED enhVars
    /\ UNCHANGED filterVars

\* TariffUpdateMerger.run_merge: merge the generated file into the clean file
RunMerge ==
    /\ clean_updates' = merge_updates(clean_updates, gemini_updates)
    /\ lastOp' = "merge"
    /\ approved_numbers' = <<>>
    /\ UNCHANGED gemini_updates
    /\ UNCHANGED credVars
    /\ UNCHANGED enhVars
    /\ UNCHANGED filterVars

(***************************************************************************)
(* Credential Pool and Oracle Adapter                                      *)
(***************************************************************************)
NoClient == "none"

\* max_retries of generate_with_gemini
max_retries == 3

\* the key lists load_api_keys_from_env can hand to the enhancer
KeyLists == { <<"k1">>, <<"k1", "k2">>, <<"k1", "k2", "k3">>, <<"k1", "k1">> }

\* outcome of one request to the oracle: a text, a quota/auth-class error, or any
\* other failure (an empty response raises "No valid response generated")
Outcomes == { "text", "quota", "error" }

\* the credential state as one value
Cred(keys, idx, exh, cl) ==
    [api_keys |-> keys, current_key_index |-> idx, exhausted_keys |-> exh, client |-> cl]

\* _initialize_client: <<state after, return value>>
initialize_client(c) ==
    IF /\ c.current_key_index < Len(c.api_keys)
       /\ c.api_keys[c.current_key_index + 1] \notin c.exhausted_keys
    THEN <<[c EXCEPT !.client = c.api_keys[c.current_key_index + 1]], TRUE>>
    ELSE <<c, FALSE>>

\* _switch_to_next_key, called with current_key_index < len(api_keys):
\* <<state after, return value>>
switch_to_next_key(c) ==
    LET c1 == [c EXCEPT !.exhausted_keys = @ \cup {c.api_keys[c.current_key_index + 1]},
                        !.current_key_index = @ + 1]
    IN IF c1.current_key_index < Len(c1.api_keys)
       THEN IF initialize_client(c1)[2] THEN <<initialize_client(c1)[1], TRUE>>
                                        ELSE <<c1, FALSE>>
       ELSE <<c1, FALSE>>

\* generate_with_gemini from attempt number 'attempt' on; outcomes[i] is what the
\* oracle does to the i-th request.  Result: the credential state, the returned
\* value ("text", "empty" for "", "raised" for an escaping exception) and the
\* requests issued, each with the key used and whether it was exhausted already.
RECURSIVE generate_attempts(_, _, _, _)
generate_attempts(c, attempt, outcomes, reqs) ==
    IF attempt >= max_retries
    THEN [cred |-> c, result |-> "empty", requests |-> reqs]
    ELSE
      LET init == IF c.client = NoClient THEN initialize_client(c) ELSE <<c, TRUE>>
          c1 == init[1]
      IN IF ~init[2]
         THEN [cred |-> c1, result |-> "empty", requests |-> reqs]
         ELSE
           LET reqs1 == Append(reqs, <<c1.client, c1.client \in c1.exhausted_keys>>)
               o == outcomes[attempt + 1]
           IN IF o = "text"
              THEN [cred |-> c1, result |-> "text", requests |-> reqs1]
              ELSE IF o = "quota"
              THEN IF c1.current_key_index >= Len(c1.api_keys)
                   THEN \* self.api_keys[self.current_key_index]: IndexError in the handler
                        [cred |-> c1, result |-> "raised", requests |-> reqs1]
                   ELSE LET sw == switch_to_next_key(c1)
                        IN IF sw[2]
                           THEN generate_attempts(sw[1], attempt + 1, outcomes, reqs1)
                           ELSE [cred |-> sw[1], result |-> "empty", requests |-> reqs1]
              ELSE IF attempt < max_retries - 1
                   THEN generate_attempts(c1, attempt + 1, outcomes, reqs1)
                   ELSE [cred |-> c1, result |-> "empty", requests |-> reqs1]

generate_with_gemini(c, outcomes) == generate_attempts(c, 0, outcomes, <<>>)

CurrentCred == Cred(api_keys, current_key_index, exhausted_keys, client)

\* one call of generate_with_gemini by the run
GenerateWithGemini ==
    /\ calls < MaxCalls
    /\ lastResult # "raised"
    /\ \E outcomes \in [1..max_retries -> Outcomes] :
         LET r == generate_with_gemini(CurrentCred, outcomes)
         IN /\ current_key_index' = r.cred.current_key_index
            /\ exhausted_keys' = r.cred.exhausted_keys
            /\ client' = r.cred.client
            /\ lastResult' = r.result
            /\ lastRequests' = r.requests
    /\ calls' = calls + 1
    /\ UNCHANGED api_keys
    /\ UNCHANGED ledgerVars
    /\ UNCHANGED enhVars
    /\ UNCHANGED filterVars

(***************************************************************************)
(* Field content of the enrichment corpus                                  *)
(* A string is a sequence of tokens; a token stands for a fixed piece of   *)
(* text with a known length and known marker substrings.                   *)
(***************************************************************************)
\* len() of the text a token stands for
TokLen(t) ==
    CASE t = " " -> 1
      [] t = "\n" -> 1
      [] t = "." -> 1
      [] t = "W49" -> 49
      [] t = "NO UPDATE NEEDED" -> 16
      [] t = "UPDATE NEEDED" -> 13
      [] t = "NO UPDATE" -> 9
      [] t = "DECISION: " -> 10
      [] t = "NEW_DEVELOPMENTS: " -> 18
      [] t = "Keep existing value" -> 19
      [] t = "Only update if" -> 14
      [] t = "Keep existing array" -> 19
      [] t = "otherwise keep existing" -> 23
      [] t = " Recent developments include " -> 29
      [] t = "Related to: " -> 12
      [] t = "W24" -> 24
      [] t = "W25" -> 25
      [] t = "W26" -> 26
      [] t = "W60" -> 60
      [] OTHER -> 4

RECURSIVE StrLen(_)
StrLen(s) == IF s = <<>> THEN 0 ELSE TokLen(Head(s)) + StrLen(Tail(s))

\* the marker substrings a token contains
Patterns(t) ==
    CASE t = "NO UPDATE NEEDED" -> {"NO UPDATE NEEDED", "UPDATE NEEDED", "NO UPDATE"}
      [] t = "UPDATE NEEDED" -> {"UPDATE NEEDED"}
      [] t = "NO UPDATE" -> {"NO UPDATE"}
      [] t = "Keep existing value" -> {"Keep existing value"}
      [] t = "Only update if" -> {"Only update if"}
      [] t = "Keep existing array" -> {"Keep existing array"}
      [] t = "otherwise keep existing" -> {"keep existing"}
      [] OTHER -> {}

\* pattern in s
Contains(s, pattern) == \E i \in 1..Len(s) : pattern \in Patterns(s[i])

\* s.count(pattern)
Count(s, pattern) == Cardinality({ i \in 1..Len(s) : pattern \in Patterns(s[i]) })

IsWhite(t) == t = " " \/ t = "\n"

RECURSIVE LStripW(_)
LStripW(s) == IF s # <<>> /\ IsWhite(Head(s)) THEN LStripW(Tail(s)) ELSE s

RECURSIVE RStripW(_)
RStripW(s) == IF s # <<>> /\ IsWhite(s[Len(s)]) THEN RStripW(SubSeq(s, 1, Len(s) - 1)) ELSE s

\* str.strip() on a token string
StripW(s) == RStripW(LStripW(s))

Sentinel == <<"NO UPDATE NEEDED">>

\* values of a structured section: a string, a list of strings, or no entry
Absent == <<"absent">>
StrV(s) == <<"str">> \o s
ListV(items) == <<"list">> \o items
IsStr(v) == v[1] = "str"
IsList(v) == v[1] = "list"
Body(v) == Tail(v)

SectionKeys ==
    { "defense_agreements", "joint_exercises", "intelligence_sharing",
      "recent_high_level_visits", "institutional_frameworks", "embassy_relations",
      "trade_volume_estimate", "investment_flows", "key_trade_sectors", "trade_agreements",
      "current_challenges", "cooperation_opportunities", "future_outlook" }

EmptyDict == [k \in SectionKeys |-> Absent]

\* len(d), k in d, d with one entry removed
DictLen(d) == Cardinality({ k \in SectionKeys : d[k] # Absent })
Has(d, k) == d[k] # Absent
Del(d, k) == [d EXCEPT ![k] = Absent]

\* content of one section: a dict, a text, or not stored at all
DictC(d) == [kind |-> "dict", d |-> d, t |-> <<>>]
TextC(t) == [kind |-> "text", d |-> EmptyDict, t |-> t]
AbsentC == [kind |-> "absent", d |-> EmptyDict, t |-> <<>>]

\* self.sensitive_fields
sensitive_fields ==
    << "security_cooperation", "diplomatic_engagement", "economic_cooperation",
       "challenges_and_opportunities", "detailed_relationship_summary" >>

\* an oracle response: plain text, text holding a JSON object, or text holding
\* braces that json.loads rejects
TextR(t) == [kind |-> "text", t |-> t, d |-> EmptyDict]
JsonR(d) == [kind |-> "json", t |-> <<>>, d |-> d]
BadJsonR == [kind |-> "badjson", t |-> <<>>, d |-> EmptyDict]
EmptyR == TextR(<<>>)

(***************************************************************************)
(* Content Merger: enhance_section_selectively after the oracle call       *)
(***************************************************************************)
\* the three placeholder tests of the merge loop
MergerSkips(value) ==
    \/ IsStr(value) /\ StripW(Body(value)) = Sentinel
    \/ IsStr(value) /\ (Contains(Body(value), "Keep existing value")
                        \/ Contains(Body(value), "Only update if"))
    \/ IsList(value) /\ Len(Body(value)) = 1
                     /\ (Contains(Body(value), "Keep existing array")
                         \/ Contains(Body(value), "Only modify if"))

\* the merge loop: merged_section after  for key, value in updated_section.items()
MergeLoop(merged, updated) ==
    [k \in SectionKeys |->
        IF updated[k] # Absent /\ ~MergerSkips(updated[k]) /\ merged[k] # updated[k]
        THEN updated[k] ELSE merged[k]]

\* changes_made after the merge loop
ChangesMade(merged, updated) ==
    \E k \in SectionKeys :
        updated[k] # Absent /\ ~MergerSkips(updated[k]) /\ merged[k] # updated[k]

\* the dict the loops start from: a copy of the current content, without future_outlook
\* for challenges_and_opportunities
StartDict(section_name, current) ==
    LET copy == IF current.kind = "dict" THEN current.d ELSE EmptyDict
    IN IF section_name = "challenges_and_opportunities" THEN Del(copy, "future_outlook") ELSE copy

CandidateDict(section_name, response) ==
    IF section_name = "challenges_and_opportunities" THEN Del(response.d, "future_outlook")
    ELSE response.d

\* a text merge without the minimum-length test on the response
TextMergeBlind(current, response) ==
    IF \/ StripW(response.t) = Sentinel
       \/ Count(response.t, "NO UPDATE NEEDED") = 1 /\ StrLen(StripW(response.t)) < 50
    THEN <<current, "NO_UPDATE_NEEDED">>
    ELSE <<TextC(StripW(response.t)), "UPDATED">>

\* enhance_section_selectively for detailed_relationship_summary
TextMerge(current, response) ==
    IF \/ StripW(response.t) = Sentinel
       \/ Count(response.t, "NO UPDATE NEEDED") = 1 /\ StrLen(StripW(response.t)) < 50
    THEN <<current, "NO_UPDATE_NEEDED">>
    ELSE IF StripW(response.t) # <<>> /\ StrLen(StripW(response.t)) > 50
         THEN <<TextC(StripW(response.t)), "UPDATED">>
         ELSE <<current, "ERROR">>

\* a merger that hands back an empty section when the candidate does not parse
DictMergeLossy(section_name, current, response) ==
    IF response.kind = "text"
    THEN IF Contains(response.t, "NO UPDATE NEEDED")
         THEN <<current, "NO_UPDATE_NEEDED">>
         ELSE <<current, "ERROR">>
    ELSE IF response.kind = "badjson"
    THEN <<DictC(EmptyDict), "ERROR">>
    ELSE LET merged == StartDict(section_name, current)
             updated == CandidateDict(section_name, response)
         IN IF ChangesMade(merged, updated)
            THEN <<DictC(MergeLoop(merged, updated)), "UPDATED">>
            ELSE <<current, "NO_ACTUAL_CHANGES">>

\* enhance_section_selectively for the structured sections
DictMerge(section_name, current, response) ==
    IF response.kind = "text"
    THEN IF Contains(response.t, "NO UPDATE NEEDED")
         THEN <<current, "NO_UPDATE_NEEDED">>
         ELSE <<current, "ERROR">>
    ELSE IF response.kind = "badjson"
    THEN <<current, "ERROR">>
    ELSE LET merged == StartDict(section_name, current)
             updated == CandidateDict(section_name, response)
         IN IF ChangesMade(merged, updated)
            THEN <<DictC(MergeLoop(merged, updated)), "UPDATED">>
            ELSE <<current, "NO_ACTUAL_CHANGES">>

\* enhance_section_selectively: <<content, status>> for the oracle result
\* ("raised": generate_with_gemini let an exception escape)
enhance_section_selectively(section_name, current, result, response) ==
    IF result = "raised" THEN <<current, "ERROR">>
    ELSE IF section_name = "detailed_relationship_summary"
         THEN TextMerge(current, IF result = "text" THEN response ELSE EmptyR)
         ELSE DictMerge(section_name, current, IF result = "text" THEN response ELSE EmptyR)

(***************************************************************************)
(* Forced-Update Resolver: force_section_update after the oracle call      *)
(***************************************************************************)
ForceSkips(value) ==
    \/ IsStr(value) /\ StripW(Body(value)) = Sentinel
    \/ IsStr(value) /\ (Contains(Body(value), "MUST update")
                        \/ Contains(Body(value), "keep existing"))

ForceLoop(merged, updated) ==
    [k \in SectionKeys |->
        IF updated[k] # Absent /\ ~ForceSkips(updated[k]) /\ merged[k] # updated[k]
        THEN updated[k] ELSE merged[k]]

ForceChangesMade(merged, updated) ==
    \E k \in SectionKeys :
        updated[k] # Absent /\ ~ForceSkips(updated[k]) /\ merged[k] # updated[k]

\* f"{value} {specific_developments}".strip()
AppendDevelopment(value, dev) ==
    IF IsStr(value) THEN StrV(StripW(Body(value) \o <<" ">> \o dev))
    ELSE StrV(StripW(<<"[">> \o Body(value) \o <<"]", " ">> \o dev))

\* the manual fallback of force_section_update on the first default key present
ManualAppend(merged, dev) ==
    IF Has(merged, "recent_high_level_visits")
    THEN [merged EXCEPT !["recent_high_level_visits"] = AppendDevelopment(@, dev)]
    ELSE IF Has(merged, "trade_agreements")
    THEN [merged EXCEPT !["trade_agreements"] = AppendDevelopment(@, dev)]
    ELSE IF Has(merged, "defense_agreements")
    THEN [merged EXCEPT !["defense_agreements"] = AppendDevelopment(@, dev)]
    ELSE IF Has(merged, "current_challenges") /\ IsList(merged["current_challenges"])
    THEN [merged EXCEPT !["current_challenges"] = Append(@, <<"Related to: ">> \o dev)]
    ELSE merged

\* the caller's content after force_section_update: challenges.append(...) extends the
\* list object that the copy shares with current_section_data
AfterForce(section_name, current, result, response, dev) ==
    LET merged == StartDict(section_name, current)
    IN IF /\ result = "text"
          /\ section_name # "detailed_relationship_summary"
          /\ response.kind = "json"
          /\ current.kind = "dict"
          /\ ~ForceChangesMade(merged, CandidateDict(section_name, response))
          /\ ~Has(merged, "recent_high_level_visits")
          /\ ~Has(merged, "trade_agreements")
          /\ ~Has(merged, "defense_agreements")
          /\ Has(merged, "current_challenges")
          /\ IsList(merged["current_challenges"])
       THEN DictC([current.d EXCEPT
                     !["current_challenges"] = Append(@, <<"Related to: ">> \o dev)])
       ELSE current

\* force_section_update for detailed_relationship_summary
TextForce(current, response, dev) ==
    IF StripW(response.t) # <<>> /\ StrLen(StripW(response.t)) > 50
    THEN IF TextC(StripW(response.t)) # current
         THEN <<TextC(StripW(response.t)), "FORCED_UPDATE">>
         ELSE <<TextC(current.t \o <<" Recent developments include ">> \o dev \o <<".">>),
                "FORCED_UPDATE">>
    ELSE <<current, "FORCE_FAILED">>

\* force_section_update for the structured sections
DictForce(section_name, current, response, dev) ==
    IF response.kind = "text" THEN <<current, "FORCE_FAILED">>
    ELSE IF response.kind = "badjson" THEN <<current, "FORCE_FAILED">>
    ELSE LET merged == StartDict(section_name, current)
             updated == CandidateDict(section_name, response)
         IN IF ForceChangesMade(merged, updated)
            THEN <<DictC(ForceLoop(merged, updated)), "FORCED_UPDATE">>
            ELSE <<DictC(ManualAppend(merged, dev)), "FORCED_UPDATE">>

\* force_section_update: <<content, status>> for the oracle result
force_section_update(section_name, current, result, response, dev) ==
    IF result = "raised" THEN <<current, "FORCE_FAILED">>
    ELSE IF section_name = "detailed_relationship_summary"
         THEN TextForce(current, IF result = "text" THEN response ELSE EmptyR, dev)
         ELSE DictForce(section_name, current, IF result = "text" THEN response ELSE EmptyR, dev)

(***************************************************************************)
(* Staleness Detector: analyze_section_needs_update                        *)
(***************************************************************************)
\* the stored section as analyze_section_needs_update reads it: get(name, "") / get(name, {})
\* Rule 1, text section: not section_data or len(section_data.strip()) < 50
TextTooShort(content) ==
    content.kind # "text" \/ content.t = <<>> \/ StrLen(StripW(content.t)) < 50

\* a structural rule that lets a two-key section through to the oracle
DictNearlyEmpty(content) ==
    content.kind # "dict" \/ DictLen(content.d) < 2

\* Rule 1, structured section: not section_data or len(section_data) <= 2
DictTooSmall(content) ==
    content.kind # "dict" \/ DictLen(content.d) <= 2

StructuralRule(section_name, content) ==
    IF section_name = "detailed_relationship_summary"
    THEN TextTooShort(content)
    ELSE DictTooSmall(content)

\* str.upper() on one token
UpperTok(t) == IF t = "update needed" THEN "UPDATE NEEDED" ELSE t
Upper(s) == [i \in 1..Len(s) |-> UpperTok(s[i])]

\* tokens of s up to the first newline
RECURSIVE UpToNewline(_)
UpToNewline(s) ==
    IF s = <<>> \/ Head(s) = "\n" THEN <<>> ELSE <<Head(s)>> \o UpToNewline(Tail(s))

\* re.search(r'NEW_DEVELOPMENTS: (.+?)(?:\n|$)', response): the stripped group, or the default
RECURSIVE Developments(_)
Developments(s) ==
    IF s = <<>> THEN <<"New developments found">>
    ELSE IF Head(s) = "NEW_DEVELOPMENTS: " /\ Tail(s) # <<>>
         THEN StripW(<<Head(Tail(s))>> \o UpToNewline(Tail(Tail(s))))
         ELSE Developments(Tail(s))

\* a detector that asks for an update when the oracle gave it nothing to parse
ParseDecisionEager(result, response) ==
    IF result # "text"
    THEN [needs |-> TRUE, reasoning |-> "Analysis failed", developments |-> <<"None">>]
    ELSE IF Contains(Upper(response.t), "UPDATE NEEDED") \/ Contains(Upper(response.t), "UPDATE_NEEDED")
    THEN [needs |-> TRUE, reasoning |-> "update needed", developments |-> Developments(response.t)]
    ELSE [needs |-> FALSE, reasoning |-> "no update", developments |-> <<"None">>]

\* Rule 2: the decision parsed from the oracle's answer
ParseDecision(result, response) ==
    IF result = "raised"
    THEN [needs |-> FALSE, reasoning |-> "Analysis failed", developments |-> <<"None">>]
    ELSE LET text == IF result = "text" THEN response.t ELSE <<>>
         IN IF Contains(Upper(text), "UPDATE NEEDED") \/ Contains(Upper(text), "UPDATE_NEEDED")
            THEN [needs |-> TRUE, reasoning |-> "update needed", developments |-> Developments(text)]
            ELSE IF Contains(Upper(text), "NO_UPDATE") \/ Contains(Upper(text), "NO UPDATE")
            THEN [needs |-> FALSE, reasoning |-> "no update", developments |-> <<"None">>]
            ELSE [needs |-> FALSE, reasoning |-> "AI response unclear", developments |-> <<"None">>]

StructuralDecision ==
    [needs |-> TRUE, reasoning |-> "empty or minimal data", developments |-> <<>>]

(***************************************************************************)
(* The corpus and the oracle's answers                                     *)
(***************************************************************************)
Str1(t) == StrV(<<t>>)

Dict(pairs) ==
    [k \in SectionKeys |-> IF \E q \in pairs : q[1] = k
                           THEN (CHOOSE q \in pairs : q[1] = k)[2] ELSE Absent]

\* source_data['bilateral_relations'].keys()
SourceCountries == { "DEU", "FRA", "GBR", "ITA", "JPN" }
CountryCodes == SourceCountries \cup { "ZZZ" }

Sections(sec, dip, eco, cha, summary) ==
    [f \in { sensitive_fields[i] : i \in 1..Len(sensitive_fields) } |->
        CASE f = "security_cooperation" -> sec
          [] f = "diplomatic_engagement" -> dip
          [] f = "economic_cooperation" -> eco
          [] f = "challenges_and_opportunities" -> cha
          [] OTHER -> summary]

\* one record of enhanced_bilateral_relations; present = FALSE: no entry (or {})
Record(sections, date, selective) ==
    [present |-> TRUE, sec |-> sections, enhanced_analysis_date |-> date,
     last_selective_update |-> selective, enhancement_status |-> "completed"]

NoRecord ==
    [present |-> FALSE, sec |-> Sections(AbsentC, AbsentC, AbsentC, AbsentC, AbsentC),
     enhanced_analysis_date |-> "", last_selective_update |-> "", enhancement_status |-> ""]

RichSecurity ==
    DictC(Dict({ <<"defense_agreements", Str1("s1")>>, <<"joint_exercises", Str1("s2")>>,
                 <<"intelligence_sharing", Str1("s3")>> }))
RichDiplomatic ==
    DictC(Dict({ <<"recent_high_level_visits", Str1("v1")>>,
                 <<"institutional_frameworks", Str1("v2")>>, <<"embassy_relations", Str1("v3")>> }))
\* an economic section the oracle wrote without a trade_agreements entry
EconomicNoAgreements ==
    DictC(Dict({ <<"trade_volume_estimate", Str1("e1")>>, <<"investment_flows", Str1("e2")>>,
                 <<"key_trade_sectors", ListV(<<"e3">>)>> }))
RichChallenges ==
    DictC(Dict({ <<"current_challenges", ListV(<<"c1">>)>>,
                 <<"cooperation_opportunities", ListV(<<"o1">>)>>,
                 <<"future_outlook", Str1("f1")>> }))
LongSummary == TextC(<<"W26", "W26">>)
\* 50 characters, 49 of them after trimming
PaddedSummary == TextC(<<"W49", " ">>)
\* exactly 50 characters
MinimalSummary == TextC(<<"W25", "W25">>)
\* a structured section with two keys
TwoKeySecurity ==
    DictC(Dict({ <<"defense_agreements", Str1("s1")>>, <<"joint_exercises", Str1("s2")>> }))

\* the enriched corpus on disk: DEU and GBR fully populated, FRA with an empty
\* economic section and a short summary, ITA with a two-key section, a missing section
\* and summaries at the length limit, JPN not enriched yet
Corpus ==
    [c \in CountryCodes |->
        CASE c \in { "DEU", "GBR" } -> Record(Sections(RichSecurity, RichDiplomatic, EconomicNoAgreements,
                                          RichChallenges, LongSummary), "old", "")
          [] c = "FRA" -> Record(Sections(RichSecurity, RichDiplomatic, DictC(EmptyDict),
                                          RichChallenges, PaddedSummary), "old", "")
          [] c = "ITA" -> Record(Sections(TwoKeySecurity, RichDiplomatic, AbsentC,
                                          RichChallenges, MinimalSummary), "old", "")
          [] OTHER -> NoRecord]

\* what enhance_country_full returns when the oracle answers with a JSON object
FullRecord ==
    Record(Sections(RichSecurity, RichDiplomatic, EconomicNoAgreements,
                    DictC(Dict({ <<"current_challenges", ListV(<<"c1">>)>> })), LongSummary),
           "now", "")

\* what enhance_country_full returns otherwise: relation_data.copy() with a status
FailedRecord(st) ==
    [NoRecord EXCEPT !.present = TRUE, !.enhanced_analysis_date = "now", !.enhancement_status = st]

\* one request vector per call: what the oracle does to each attempt
OutcomeVectors ==
    { [i \in 1..max_retries |-> "text"], [i \in 1..max_retries |-> "quota"],
      [i \in 1..max_retries |-> "error"] }

\* answers to the staleness prompt
AnalysisResponses ==
    { TextR(<<"DECISION: ", "UPDATE NEEDED", "\n", "NEW_DEVELOPMENTS: ", "dev1">>),
      TextR(<<"DECISION: ", "NO UPDATE">>),
      TextR(<<"DECISION: ", "NO UPDATE NEEDED">>),
      TextR(<<"unclear">>) }

\* the key of a section the oracle rewrites when it changes something
ChangeKey(section_name) ==
    CASE section_name = "security_cooperation" -> "joint_exercises"
      [] section_name = "diplomatic_engagement" -> "institutional_frameworks"
      [] section_name = "economic_cooperation" -> "investment_flows"
      [] OTHER -> "cooperation_opportunities"

\* a candidate that repeats the stored values
SameAs(current) ==
    IF current.kind = "text" THEN TextR(current.t)
    ELSE JsonR(IF current.kind = "dict" THEN current.d ELSE EmptyDict)

Changed(section_name, current) ==
    JsonR([(IF current.kind = "dict" THEN current.d ELSE EmptyDict)
             EXCEPT ![ChangeKey(section_name)] = Str1("new")])

Placeholders(current) ==
    JsonR([k \in SectionKeys |->
             IF current.kind = "dict" /\ Has(current.d, k)
             THEN Str1("Keep existing value") ELSE Absent])

\* answers to the generation prompt of enhance_section_selectively
MergeResponses(section_name, current) ==
    IF section_name = "detailed_relationship_summary"
    THEN { TextR(Sentinel), TextR(<<"W25">>), TextR(<<"W60">>), SameAs(current) }
    ELSE { TextR(Sentinel), BadJsonR, SameAs(current), Changed(section_name, current),
           Placeholders(current) }

\* answers to the prompt of force_section_update
ForceResponses(section_name, current) ==
    IF section_name = "detailed_relationship_summary"
    THEN { TextR(<<"W25">>), TextR(<<"W60">>), SameAs(current) }
    ELSE { BadJsonR, SameAs(current), Changed(section_name, current) }

\* the candidate repeats the content it was generated for
Identical(current, result, response) ==
    result = "text" /\ response = SameAs(current)

(***************************************************************************)
(* enhance_bilateral_relations_selective                                   *)
(***************************************************************************)
country_code == countries_to_update[ci]
section_name == sensitive_fields[si]

\* current_enhanced.get(section_name, {})
GetSection(record, name) ==
    IF record.sec[name].kind = "absent" THEN DictC(EmptyDict) ELSE record.sec[name]

\* if needs_update: ... else: log NO_CHANGE_NEEDED
AfterAnalysis(needs) == IF needs THEN "ask" ELSE "nochange"

\* a gate that lets every answer but skip-all through to the generator
AfterPermissionLax(answer) ==
    CASE answer = "s" -> "skip_all"
      [] OTHER -> "enhance"

\* a gate that leaves the prompts for good when the wait is interrupted
AfterPermissionAbort(answer) ==
    CASE answer = "s" -> "skip_all"
      [] answer = "interrupt" -> "skip_all"
      [] answer = "y" -> "enhance"
      [] OTHER -> "skipped"

\* the branches on the value ask_user_permission returned
AfterPermission(answer) ==
    CASE answer = "s" -> "skip_all"
      [] answer = "y" -> "enhance"
      [] OTHER -> "skipped"

\* an orchestrator that logs whatever the Merger returned
AfterMergerNever(st) == "log"

\* if status == "NO_ACTUAL_CHANGES": force_section_update(...)
AfterMerger(st) == IF st = "NO_ACTUAL_CHANGES" THEN "force" ELSE "log"

\* if status == "UPDATED" or status == "FORCED_UPDATE": write the section
Applies(st) == st = "UPDATED" \/ st = "FORCED_UPDATE"

\* enhance_section_selectively is not parsing an answer
NoGenerated == [kind |-> "none", t |-> <<>>, d |-> EmptyDict]

\* no answer of the oracle is being parsed
NoResponse == [result |-> "none", text |-> <<>>]

SetCred(c) ==
    /\ current_key_index' = c.current_key_index
    /\ exhausted_keys' = c.exhausted_keys
    /\ client' = c.client
    /\ UNCHANGED <<api_keys, lastResult, lastRequests, calls>>

\* the locals of one pass of the section loop, before the next pass binds them
ResetField ==
    /\ needs_update' = FALSE
    /\ specific_developments' = <<>>
    /\ permission' = "none"
    /\ current_section' = AbsentC
    /\ updated_section' = AbsentC
    /\ status' = "none"
    /\ merger_status' = "none"
    /\ gen_identical' = FALSE
    /\ force_identical' = FALSE
    /\ forced' = FALSE

\* the country loop is over: return enhanced_relations
Return ==
    /\ pc = "country"
    /\ ci > Len(countries_to_update)
    /\ pc' = "done"
    /\ UNCHANGED <<enhanced_relations, countries_to_update, ci, si, skip_all,
                   updated_country_data, country_updated, needs_update, specific_developments,
                   permission, current_section, updated_section, status, merger_status,
                   gen_identical, force_identical, forced, changeLog, staleCount>>
    /\ UNCHANGED <<oracle_answered, oracle_calls>>
    /\ analysis_response' = NoResponse
    /\ UNCHANGED evaluated
    /\ UNCHANGED generated
    /\ UNCHANGED credVars
    /\ UNCHANGED ledgerVars
    /\ UNCHANGED filterVars

\* if country_code not in bilateral_relations: continue
SkipCountry ==
    /\ pc = "country"
    /\ ci <= Len(countries_to_update)
    /\ country_code \notin SourceCountries
    /\ ci' = ci + 1
    /\ UNCHANGED <<enhanced_relations, countries_to_update, si, pc, skip_all,
                   updated_country_data, country_updated, needs_update, specific_developments,
                   permission, current_section, updated_section, status, merger_status,
                   gen_identical, force_identical, forced, changeLog, staleCount>>
    /\ UNCHANGED <<oracle_answered, oracle_calls>>
    /\ analysis_response' = NoResponse
    /\ UNCHANGED evaluated
    /\ UNCHANGED generated
    /\ UNCHANGED credVars
    /\ UNCHANGED ledgerVars
    /\ UNCHANGED filterVars

\* if not current_enhanced: enhance_country_full(...); continue
EnhanceCountryFull ==
    /\ pc = "country"
    /\ ci <= Len(countries_to_update)
    /\ country_code \in SourceCountries
    /\ ~enhanced_relations[country_code].present
    /\ \E outcomes \in OutcomeVectors : \E response \in { JsonR(EmptyDict), TextR(<<"W25">>) } :
         LET r == generate_with_gemini(CurrentCred, outcomes)
             rec == IF r.result = "raised" THEN FailedRecord("error")
                    ELSE IF r.result = "text" /\ response.kind = "json" THEN FullRecord
                    ELSE FailedRecord("failed_to_parse")
         IN /\ SetCred(r.cred)
            /\ oracle_answered' = (oracle_answered \/ r.result = "text")
            /\ oracle_calls' = oracle_calls + 1
            /\ analysis_response' = NoResponse
            /\ UNCHANGED evaluated
            /\ UNCHANGED generated
            /\ enhanced_relations' = [enhanced_relations EXCEPT ![country_code] = rec]
    /\ ci' = ci + 1
    /\ UNCHANGED <<countries_to_update, si, pc, skip_all,
                   updated_country_data, country_updated, needs_update, specific_developments,
                   permission, current_section, updated_section, status, merger_status,
                   gen_identical, force_identical, forced, changeLog, staleCount>>
    /\ UNCHANGED ledgerVars
    /\ UNCHANGED filterVars

\* updated_country_data = current_enhanced.copy(); country_updated = False
BeginCountry ==
    /\ pc = "country"
    /\ ci <= Len(countries_to_update)
    /\ country_code \in SourceCountries
    /\ enhanced_relations[country_code].present
    /\ updated_country_data' = enhanced_relations[country_code]
    /\ country_updated' = FALSE
    /\ si' = 1
    /\ pc' = "section"
    /\ UNCHANGED <<enhanced_relations, countries_to_update, ci, skip_all,
                   needs_update, specific_developments,
                   permission, current_section, updated_section, status, merger_status,
                   gen_identical, force_identical, forced, changeLog, staleCount>>
    /\ UNCHANGED <<oracle_answered, oracle_calls>>
    /\ analysis_response' = NoResponse
    /\ UNCHANGED evaluated
    /\ UNCHANGED generated
    /\ UNCHANGED credVars
    /\ UNCHANGED ledgerVars
    /\ UNCHANGED filterVars

\* the section loop ends: all sections done, or  if skip_all: break
EndSections ==
    /\ pc = "section"
    /\ skip_all \/ si > Len(sensitive_fields)
    /\ pc' = "finish"
    /\ UNCHANGED <<enhanced_relations, countries_to_update, ci, si, skip_all,
                   updated_country_data, country_updated, needs_update, specific_developments,
                   current_section, updated_section, status, merger_status,
                   gen_identical, force_identical, forced, changeLog, staleCount>>
    /\ UNCHANGED <<oracle_answered, oracle_calls>>
    /\ analysis_response' = NoResponse
    /\ UNCHANGED evaluated
    /\ UNCHANGED generated
    /\ permission' = "none"
    /\ UNCHANGED credVars
    /\ UNCHANGED ledgerVars
    /\ UNCHANGED filterVars

\* what follows the decision of analyze_section_needs_update
Decide(decision) ==
    IF AfterAnalysis(decision.needs) = "ask"
    THEN /\ needs_update' = decision.needs
         /\ specific_developments' = decision.developments
         /\ pc' = "ask"
         /\ UNCHANGED <<si, changeLog>>
    ELSE /\ changeLog' = Append(changeLog, <<country_code, section_name, "NO_CHANGE_NEEDED">>)
         /\ si' = si + 1
         /\ pc' = "section"
         /\ UNCHANGED <<needs_update, specific_developments>>

\* analyze_section_needs_update, Rule 1: no oracle call
AnalyzeStructural ==
    /\ pc = "section"
    /\ ~skip_all
    /\ si <= Len(sensitive_fields)
    /\ StructuralRule(section_name, enhanced_relations[country_code].sec[section_name])
    /\ Decide(StructuralDecision)
    /\ UNCHANGED <<enhanced_relations, countries_to_update, ci, skip_all,
                   updated_country_data, country_updated,
                   current_section, updated_section, status, merger_status,
                   gen_identical, force_identical, forced, staleCount>>
    /\ UNCHANGED <<oracle_answered, oracle_calls>>
    /\ analysis_response' = NoResponse
    /\ evaluated' = Append(evaluated, <<country_code, section_name>>)
    /\ UNCHANGED generated
    /\ permission' = "none"
    /\ UNCHANGED credVars
    /\ UNCHANGED ledgerVars
    /\ UNCHANGED filterVars

\* analyze_section_needs_update, Rule 2: one oracle call
AnalyzeWithOracle ==
    /\ pc = "section"
    /\ ~skip_all
    /\ si <= Len(sensitive_fields)
    /\ ~StructuralRule(section_name, enhanced_relations[country_code].sec[section_name])
    /\ \E outcomes \in OutcomeVectors : \E response \in AnalysisResponses :
         LET r == generate_with_gemini(CurrentCred, outcomes)
             decision == ParseDecision(r.result, response)
         IN /\ decision.needs => staleCount < MaxStale
            /\ staleCount' = IF decision.needs THEN staleCount + 1 ELSE staleCount
            /\ SetCred(r.cred)
            /\ oracle_answered' = (oracle_answered \/ r.result = "text")
            /\ oracle_calls' = oracle_calls + 1
            /\ analysis_response' = [result |-> r.result,
                                     text |-> IF r.result = "text" THEN response.t ELSE <<>>]
            /\ evaluated' = Append(evaluated, <<country_code, section_name>>)
            /\ UNCHANGED generated
            /\ permission' = "none"
            /\ Decide(decision)
    /\ UNCHANGED <<enhanced_relations, countries_to_update, ci, skip_all,
                   updated_country_data, country_updated,
                   current_section, updated_section, status, merger_status,
                   gen_identical, force_identical, forced>>
    /\ UNCHANGED ledgerVars
    /\ UNCHANGED filterVars

\* ask_user_permission and the branch on its value; an interrupted wait returns False
AskUserPermission ==
    /\ pc = "ask"
    /\ \E answer \in { "y", "n", "s", "interrupt" } :
         IF AfterPermission(answer) = "skip_all"
         THEN /\ skip_all' = TRUE
              /\ permission' = answer
              /\ pc' = "finish"
              /\ UNCHANGED <<si, changeLog, current_section, needs_update, specific_developments>>
         ELSE IF AfterPermission(answer) = "enhance"
         THEN /\ permission' = answer
              /\ current_section' = GetSection(enhanced_relations[country_code], section_name)
              /\ pc' = "enhance"
              /\ UNCHANGED <<si, changeLog, skip_all, needs_update,
                             specific_developments>>
         ELSE /\ changeLog' = Append(changeLog, <<country_code, section_name, "SKIPPED">>)
              /\ si' = si + 1
              /\ pc' = "section"
              /\ needs_update' = FALSE
              /\ specific_developments' = <<>>
              /\ permission' = answer
              /\ UNCHANGED <<skip_all, current_section>>
    /\ UNCHANGED <<enhanced_relations, countries_to_update, ci,
                   updated_country_data, country_updated,
                   updated_section, status, merger_status, gen_identical, force_identical,
                   forced, staleCount>>
    /\ UNCHANGED <<oracle_answered, oracle_calls>>
    /\ analysis_response' = NoResponse
    /\ UNCHANGED evaluated
    /\ UNCHANGED generated
    /\ UNCHANGED credVars
    /\ UNCHANGED ledgerVars
    /\ UNCHANGED filterVars

\* enhance_section_selectively: Candidate Generator and Content Merger
EnhanceSection ==
    /\ pc = "enhance"
    /\ \E outcomes \in OutcomeVectors : \E response \in MergeResponses(section_name, current_section) :
         LET r == generate_with_gemini(CurrentCred, outcomes)
             m == enhance_section_selectively(section_name, current_section, r.result, response)
         IN /\ SetCred(r.cred)
            /\ oracle_answered' = (oracle_answered \/ r.result = "text")
            /\ oracle_calls' = oracle_calls + 1
            /\ analysis_response' = NoResponse
            /\ UNCHANGED evaluated
            /\ UNCHANGED generated
            /\ updated_section' = m[1]
            /\ status' = m[2]
            /\ merger_status' = m[2]
            /\ gen_identical' = Identical(current_section, r.result, response)
            /\ pc' = AfterMerger(m[2])
    /\ UNCHANGED <<enhanced_relations, countries_to_update, ci, si, skip_all,
                   updated_country_data, country_updated, needs_update, specific_developments,
                   permission, current_section, force_identical, forced, changeLog, staleCount>>
    /\ UNCHANGED ledgerVars
    /\ UNCHANGED filterVars

\* force_section_update
ForceSection ==
    /\ pc = "force"
    /\ \E outcomes \in OutcomeVectors : \E response \in ForceResponses(section_name, current_section) :
         LET r == generate_with_gemini(CurrentCred, outcomes)
             m == force_section_update(section_name, current_section, r.result, response,
                                       specific_developments)
         IN /\ SetCred(r.cred)
            /\ oracle_answered' = (oracle_answered \/ r.result = "text")
            /\ oracle_calls' = oracle_calls + 1
            /\ analysis_response' = NoResponse
            /\ UNCHANGED evaluated
            /\ UNCHANGED generated
            /\ updated_section' = m[1]
            /\ status' = m[2]
            /\ force_identical' = Identical(current_section, r.result, response)
            /\ current_section' = AfterForce(section_name, current_section, r.result, response,
                                             specific_developments)
    /\ forced' = TRUE
    /\ pc' = "log"
    /\ UNCHANGED <<enhanced_relations, countries_to_update, ci, si, skip_all,
                   updated_country_data, country_updated, needs_update, specific_developments,
                   permission, merger_status, gen_identical,
                   changeLog, staleCount>>
    /\ UNCHANGED ledgerVars
    /\ UNCHANGED filterVars

\* log_section_changes, then the write of an applied section
LogAndApply ==
    /\ pc = "log"
    /\ changeLog' = Append(changeLog, <<country_code, section_name, status>>)
    /\ IF Applies(status)
       THEN /\ updated_country_data' =
                 [updated_country_data EXCEPT !.sec[section_name] = updated_section]
            /\ country_updated' = TRUE
       ELSE UNCHANGED <<updated_country_data, country_updated>>
    /\ si' = si + 1
    /\ pc' = "section"
    /\ ResetField
    /\ UNCHANGED <<enhanced_relations, countries_to_update, ci, skip_all, staleCount>>
    /\ UNCHANGED <<oracle_answered, oracle_calls>>
    /\ analysis_response' = NoResponse
    /\ UNCHANGED evaluated
    /\ UNCHANGED generated
    /\ UNCHANGED credVars
    /\ UNCHANGED ledgerVars
    /\ UNCHANGED filterVars

\* the timestamps of an updated record, and enhanced_relations[country_code] = updated_country_data
\* the record written back where a skip-all answer discards what was applied
StoredRecordRollback(updated, data) ==
    IF skip_all THEN enhanced_relations[country_code]
    ELSE IF updated
    THEN [data EXCEPT !.enhanced_analysis_date = "now", !.last_selective_update = "now"]
    ELSE data

\* the record written back where the timestamps are refreshed on every visit
StoredRecordAlwaysStamped(updated, data) ==
    [data EXCEPT !.enhanced_analysis_date = "now", !.last_selective_update = "now"]

\* if country_updated: stamp the two dates; the working copy is what is stored
StoredRecord(updated, data) ==
    IF updated
    THEN [data EXCEPT !.enhanced_analysis_date = "now", !.last_selective_update = "now"]
    ELSE data

FinishCountry ==
    /\ pc = "finish"
    /\ enhanced_relations' =
         [enhanced_relations EXCEPT ![country_code] =
            StoredRecord(country_updated, updated_country_data)]
    /\ ci' = ci + 1
    /\ pc' = "country"
    /\ ResetField
    /\ UNCHANGED <<countries_to_update, si, skip_all, updated_country_data, country_updated,
                   changeLog, staleCount>>
    /\ UNCHANGED <<oracle_answered, oracle_calls>>
    /\ analysis_response' = NoResponse
    /\ UNCHANGED evaluated
    /\ UNCHANGED generated
    /\ UNCHANGED credVars
    /\ UNCHANGED ledgerVars
    /\ UNCHANGED filterVars

(***************************************************************************)
(* Source Gate: extract_source_names and validate_multiple_sources         *)
(***************************************************************************)
\* A source title is a sequence of tokens: headline text, the separators " - " and
\* " | ", and outlet names.  The terms of the tables below that token.lower() contains:
Mentions(tok) ==
    CASE tok = "Reuters" -> {"reuters"}
      [] tok = "Politico" -> {"politico"}
      [] tok = "PBS" -> {"pbs"}
      [] tok = "Wikipedia" -> {"wikipedia"}
      [] OTHER -> {}

\* token.lower() as a whole
LowerName(tok) ==
    CASE tok = "Reuters" -> "reuters"
      [] tok = "Politico" -> "politico"
      [] tok = "PBS" -> "pbs"
      [] tok = "Wikipedia" -> "wikipedia"
      [] tok = "Trade Blog" -> "trade blog"
      [] tok = "Tariffs rise" -> "tariffs rise"
      [] OTHER -> tok

excluded_sources ==
    { "wikipedia", "itvx", "alcircle", "trade war news", "profit by pakistan today",
      "business and economy news" }

\* the (search_term, proper_name) pairs of known_sources that the tokens can match
known_sources ==
    << <<"reuters", "Reuters">>, <<"politico", "Politico">>, <<"pbs", "PBS">> >>

high_quality_sources ==
    { "reuters", "bloomberg", "wall street journal", "financial times", "white house",
      "us trade representative", "department of commerce", "bbc", "cnn", "associated press" }

\* term in title.lower()
TitleMentions(title, term) == \E i \in 1..Len(title) : term \in Mentions(title[i])

\* title.split(sep)[-1].strip()
RECURSIVE AfterLast(_, _)
AfterLast(title, sep) ==
    IF \E i \in 1..Len(title) : title[i] = sep
    THEN AfterLast(SubSeq(title, (CHOOSE i \in 1..Len(title) : title[i] = sep) + 1, Len(title)), sep)
    ELSE StripW(title)

\* source.lower() not in excluded_sources
Excluded(source) == Len(source) = 1 /\ LowerName(source[1]) \in excluded_sources

\* the first known source whose search term the title contains, <<>> if none
RECURSIVE FirstKnown(_, _)
FirstKnown(title, i) ==
    IF i > Len(known_sources) THEN <<>>
    ELSE IF TitleMentions(title, known_sources[i][1]) THEN <<known_sources[i][2]>>
    ELSE FirstKnown(title, i + 1)

\* what one title contributes to sources: a one-element list or nothing
SourcesOf(title) ==
    IF title = <<>> THEN <<>>
    ELSE IF \E i \in 1..Len(title) : title[i] = " - "
    THEN IF Excluded(AfterLast(title, " - ")) THEN <<>> ELSE <<AfterLast(title, " - ")>>
    ELSE IF \E i \in 1..Len(title) : title[i] = " | "
    THEN IF Excluded(AfterLast(title, " | ")) THEN <<>> ELSE <<AfterLast(title, " | ")>>
    ELSE IF \E e \in excluded_sources : TitleMentions(title, e) THEN <<>>
    ELSE IF FirstKnown(title, 1) # <<>> THEN <<FirstKnown(title, 1)>>
    ELSE <<>>

\* TariffAnalyzer.extract_source_names
RECURSIVE extract_source_names(_)
extract_source_names(source_titles) ==
    IF source_titles = <<>> THEN <<>>
    ELSE SourcesOf(Head(source_titles)) \o extract_source_names(Tail(source_titles))

\* any(quality_source in source_name_lower for quality_source in high_quality_sources)
HighQuality(source) == \E q \in high_quality_sources : TitleMentions(source, q)

\* a source gate without the exemption for a single high-quality source
validate_two_sources(update) ==
    IF Len(update.source_titles) < 1 THEN FALSE
    ELSE Len(extract_source_names(update.source_titles)) >= 2

\* TariffAnalyzer.validate_multiple_sources
validate_multiple_sources(update) ==
    IF Len(update.source_titles) < 1 THEN FALSE
    ELSE LET source_names == extract_source_names(update.source_titles)
         IN IF Len(source_names) < 1 THEN FALSE
            ELSE IF Len(source_names) = 1 THEN HighQuality(source_names[1])
            ELSE TRUE

(***************************************************************************)
(* generate_additional_updates: the filter loop over the oracle's batch    *)
(***************************************************************************)
Date_2025_04_02 == <<"2", "0", "2", "5", "-", "0", "4", "-", "0", "2">>
Date_2025_04_01 == <<"2", "0", "2", "5", "-", "0", "4", "-", "0", "1">>
Date_April_2_2025 == <<"A", "p", "r", "i", "l", " ", "2", ",", " ", "2", "0", "2", "5">>
Date_April_1st_2025 == <<"A", "p", "r", "i", "l", " ", "1", "s", "t", ",", " ", "2", "0", "2", "5">>
Date_04_01_2025 == <<"0", "4", "/", "0", "1", "/", "2", "0", "2", "5">>
Date_soon == <<"s", "o", "o", "n">>

DateStrings ==
    { Date_2025_04_02, Date_2025_04_01, Date_April_2_2025, Date_April_1st_2025,
      Date_04_01_2025, Date_soon }

Cite_Politico == <<"Tariffs rise", " - ", "Politico">>
Cite_Reuters == <<"Reuters">>
Cite_PBS == <<"PBS">>
Cite_Wikipedia == <<"Tariffs rise", " | ", "Wikipedia">>
Cite_Headline == <<"Tariffs rise">>

SourceLists ==
    { <<>>, <<Cite_Politico>>, <<Cite_Reuters>>, <<Cite_Politico, Cite_PBS>>,
      <<Cite_Wikipedia>>, <<Cite_Headline>> }

\* JSON values that are not strings: the number 20250627 and an absent key
Number_20250627 == <<"#20250627">>
NoKey == <<"#absent">>

\* isinstance(v, str)
IsString(v) == v # Number_20250627 /\ v # NoKey

\* candidates json.loads can return that are not of the prompted shape: a date
\* written as a number, and an object without a title
MalformedCandidates ==
    { [title |-> Title_A, announcement_date |-> Number_20250627, description |-> "d1",
       source_titles |-> <<Cite_Reuters>>],
      [title |-> NoKey, announcement_date |-> Date_2025_04_02, description |-> "d1",
       source_titles |-> <<Cite_Reuters>>] }

\* the candidate objects an answer of the oracle can hold
\* a candidate that cites the same article of one outlet twice
RepeatedCitation ==
    { [title |-> Title_A, announcement_date |-> Date_2025_04_02, description |-> "d1",
       source_titles |-> <<Cite_Politico, Cite_Politico>>] }

Candidates ==
    { [title |-> Title_A, announcement_date |-> d, description |-> "d1", source_titles |-> t] :
        d \in DateStrings, t \in SourceLists }
    \cup MalformedCandidates \cup RepeatedCitation

\* date_string.strip() in parse_date raises AttributeError for a truthy value that is
\* not a string; the handler of generate_additional_updates then returns []
Raises(update) ==
    update.announcement_date # NoKey /\ ~IsString(update.announcement_date)

\* one pass of  for update in additional_updates
FilterUpdate ==
    /\ filter_pc = "loop"
    /\ update_index <= Len(additional_updates)
    /\ LET update == additional_updates[update_index]
           date_ok == IF update.announcement_date = NoKey THEN FALSE
                      ELSE is_date_valid(update.announcement_date)
           sources_ok == validate_multiple_sources(update)
       IN IF Raises(update)
          THEN /\ verdicts' = Append(verdicts, "raised")
               /\ valid_updates' = <<>>
               /\ filter_pc' = "returned"
          ELSE IF ~date_ok
          THEN /\ verdicts' = Append(verdicts, "invalid date")
               /\ UNCHANGED <<valid_updates, filter_pc>>
          ELSE IF ~sources_ok
          THEN /\ verdicts' = Append(verdicts, "insufficient sources")
               /\ UNCHANGED <<valid_updates, filter_pc>>
          ELSE /\ verdicts' = Append(verdicts, "valid")
               /\ valid_updates' = Append(valid_updates, update)
               /\ UNCHANGED filter_pc
    /\ update_index' = update_index + 1
    /\ UNCHANGED additional_updates
    /\ UNCHANGED ledgerVars
    /\ UNCHANGED credVars
    /\ UNCHANGED enhVars

\* return valid_updates
FilterReturn ==
    /\ filter_pc = "loop"
    /\ update_index > Len(additional_updates)
    /\ filter_pc' = "returned"
    /\ UNCHANGED <<additional_updates, update_index, valid_updates, verdicts>>
    /\ UNCHANGED ledgerVars
    /\ UNCHANGED credVars
    /\ UNCHANGED enhVars

(***************************************************************************)
(* Initial states and specifications                                       *)
(***************************************************************************)
FilterIdle ==
    /\ additional_updates = <<>>
    /\ update_index = 1
    /\ valid_updates = <<>>
    /\ verdicts = <<>>
    /\ filter_pc = "idle"

LedgerIdle ==
    /\ gemini_updates = <<>>
    /\ clean_updates = <<>>
    /\ lastOp = "load"
    /\ approved_numbers = <<>>

EnhIdle ==
    /\ enhanced_relations = Corpus
    /\ countries_to_update = <<>>
    /\ ci = 1
    /\ si = 1
    /\ pc = "idle"
    /\ skip_all = FALSE
    /\ updated_country_data = NoRecord
    /\ country_updated = FALSE
    /\ needs_update = FALSE
    /\ specific_developments = <<>>
    /\ permission = "none"
    /\ current_section = AbsentC
    /\ updated_section = AbsentC
    /\ status = "none"
    /\ merger_status = "none"
    /\ gen_identical = FALSE
    /\ force_identical = FALSE
    /\ forced = FALSE
    /\ changeLog = <<>>
    /\ staleCount = 0
    /\ oracle_answered = FALSE
    /\ oracle_calls = 0
    /\ analysis_response = NoResponse
    /\ evaluated = <<>>
    /\ generated = NoGenerated

CredIdle ==
    /\ api_keys = <<"k1">>
    /\ current_key_index = 0
    /\ exhausted_keys = {}
    /\ client = "k1"
    /\ lastResult = "none"
    /\ lastRequests = <<>>
    /\ calls = 0

\* ForeignAffairsEnhancer.__init__
CredInit ==
    /\ api_keys \in KeyLists
    /\ current_key_index = 0
    /\ exhausted_keys = {}
    /\ client = initialize_client(Cred(api_keys, 0, {}, NoClient))[1].client
    /\ lastResult = "none"
    /\ lastRequests = <<>>
    /\ calls = 0
    /\ LedgerIdle
    /\ EnhIdle
    /\ FilterIdle

CredNext == GenerateWithGemini

CredSpec == CredInit /\ [][CredNext]_vars

\* C9: no request to the oracle is issued with a credential that is already in
\* the exhausted set.
C9_ExhaustedNeverReused ==
    \A i \in 1..Len(lastRequests) : ~lastRequests[i][2]

\* C10: every call of generate_with_gemini returns a string and never raises.
C10_NeverRaises == lastResult # "raised"

InitLedgers ==
    { L \in UNION { [1..k -> Updates] : k \in 0..2 } : UniqueKeys(L) }

\* both files persist between runs: the clean file holds the result of an
\* earlier merge, the generated file the approved updates of earlier rounds
LedgerInit ==
    /\ gemini_updates \in InitLedgers
    /\ clean_updates \in { SortDesc(L) : L \in InitLedgers }
    /\ lastOp = "load"
    /\ approved_numbers = <<>>
    /\ CredIdle
    /\ EnhIdle
    /\ FilterIdle

LedgerNext == RunAnalysis \/ RunMerge \/ SaveToJson

LedgerSpec == LedgerInit /\ [][LedgerNext]_vars

\* C1: merging the same batch again into the ledger a merge produced yields
\* exactly the same 'updates' list: same entries, same order, no growth.
C1_IdempotentMerge ==
    lastOp = "merge" => merge_updates(clean_updates, gemini_updates) = clean_updates

\* a merge has run that stored entries with equal dates next to each other
C1_Witness ==
    /\ lastOp = "merge"
    /\ \E i \in 1..(Len(clean_updates) - 1) :
          /\ clean_updates[i].announcement_date = clean_updates[i + 1].announcement_date
          /\ clean_updates[i] # clean_updates[i + 1]
    /\ \E i \in 1..Len(gemini_updates) : \E j \in 1..Len(clean_updates) :
          gemini_updates[i] = clean_updates[j]

\* C2: no two entries of a ledger file have the same normalized key.
C2_KeyUniqueness == UniqueKeys(gemini_updates) /\ UniqueKeys(clean_updates)

\* the lists of countries a run is asked to update
CountryLists ==
    { <<"DEU">>, <<"FRA">>, <<"ITA">>, <<"ZZZ", "JPN">>, <<"GBR", "DEU">>, <<"DEU", "JPN">> }

\* the start of enhance_bilateral_relations_selective for one list of countries
EnhStart(lists) ==
    /\ enhanced_relations = Corpus
    /\ countries_to_update \in lists
    /\ ci = 1
    /\ si = 1
    /\ pc = "country"
    /\ skip_all = FALSE
    /\ updated_country_data = NoRecord
    /\ country_updated = FALSE
    /\ needs_update = FALSE
    /\ specific_developments = <<>>
    /\ permission = "none"
    /\ current_section = AbsentC
    /\ updated_section = AbsentC
    /\ status = "none"
    /\ merger_status = "none"
    /\ gen_identical = FALSE
    /\ force_identical = FALSE
    /\ forced = FALSE
    /\ changeLog = <<>>
    /\ staleCount = 0
    /\ oracle_answered = FALSE
    /\ oracle_calls = 0
    /\ analysis_response = NoResponse
    /\ evaluated = <<>>
    /\ generated = NoGenerated
    /\ CredIdle
    /\ LedgerIdle
    /\ FilterIdle

EnhInit == EnhStart(CountryLists)

\* the lists of the runs whose completion is checked
FairLists == { <<"FRA">>, <<"ZZZ", "JPN">>, <<"DEU">> }

EnhFairInit == EnhStart(FairLists)

EnhNext ==
    \/ Return \/ SkipCountry \/ EnhanceCountryFull \/ BeginCountry
    \/ EndSections \/ AnalyzeStructural \/ AnalyzeWithOracle \/ AskUserPermission
    \/ EnhanceSection \/ ForceSection \/ LogAndApply \/ FinishCountry

EnhSpec == EnhInit /\ [][EnhNext]_vars

(***************************************************************************)
(* Properties of the selective enhancement run                             *)
(***************************************************************************)
Logged(c, s, st) == \E i \in 1..Len(changeLog) : changeLog[i] = <<c, s, st>>

\* the first section of the current record that comes after the skip-all answer
FirstAfterSkip == IF permission = "s" THEN si + 1 ELSE si

\* C3: once ask_user_permission has returned skip-all, the operator is not prompted
\* again, and every later sensitive field of every record the run visits is logged
\* with status SKIPPED
C3_ApprovalMonotonicity ==
    /\ skip_all => pc # "ask"
    /\ (skip_all /\ pc = "finish") =>
          \A k \in FirstAfterSkip..Len(sensitive_fields) :
              Logged(country_code, sensitive_fields[k], "SKIPPED")

SectionNames == { sensitive_fields[i] : i \in 1..Len(sensitive_fields) }

\* C4: a section of an already-enriched record is written only after the detector
\* answered NEEDS_UPDATE and the operator granted it; the generator runs only with
\* that grant; the gate prompts only for sections that need an update
C4_ApprovalSoundness ==
    /\ [](pc = "ask" => needs_update)
    /\ [](pc \in { "enhance", "force", "log" } => needs_update /\ permission = "y")
    /\ [][ /\ pc # "country" =>
                \A s \in SectionNames :
                    updated_country_data'.sec[s] # updated_country_data.sec[s] =>
                        pc = "log" /\ s = section_name /\ needs_update /\ permission = "y"
           /\ \A c \in CountryCodes :
                (enhanced_relations[c].present /\ enhanced_relations'[c] # enhanced_relations[c])
                    => /\ pc = "finish"
                       /\ c = country_code
                       /\ enhanced_relations'[c].sec = updated_country_data.sec ]_vars

\* a granted section has been written into the working copy of its record
C4_Witness ==
    /\ pc = "finish"
    /\ country_updated
    /\ \E s \in SectionNames :
          updated_country_data.sec[s] # enhanced_relations[country_code].sec[s]

\* C5: when the Merger or the Resolver returns a status other than UPDATED or
\* FORCED_UPDATE, the content it returns is the content it was given, and the
\* orchestrator leaves the record's section unchanged
C5_NoSilentDataLoss ==
    /\ []((pc \in { "force", "log" } /\ ~Applies(status)) => updated_section = current_section)
    /\ [][(pc = "log" /\ ~Applies(status)) =>
             /\ updated_country_data' = updated_country_data
             /\ enhanced_relations' = enhanced_relations]_vars

\* the Resolver gave up on a populated section
C5_Witness ==
    /\ pc = "log"
    /\ status = "FORCE_FAILED"
    /\ current_section.kind = "dict"
    /\ DictLen(current_section.d) > 0

\* C6: the Resolver is invoked exactly when the operator granted the update and the
\* Merger returned NO_ACTUAL_CHANGES, and the status then logged is FORCED_UPDATE or
\* FORCE_FAILED, never NO_ACTUAL_CHANGES
C6_ForcedUpdateGuarantee ==
    /\ pc = "force" => permission = "y" /\ merger_status = "NO_ACTUAL_CHANGES"
    /\ pc = "log" => (forced <=> (permission = "y" /\ merger_status = "NO_ACTUAL_CHANGES"))
    /\ (pc = "log" /\ forced) => status \in { "FORCED_UPDATE", "FORCE_FAILED" }
    /\ \A i \in 1..Len(changeLog) : changeLog[i][3] # "NO_ACTUAL_CHANGES"

\* a field whose Merger found nothing to change has been logged as FORCED_UPDATE
C6_Witness ==
    /\ pc = "section"
    /\ si > 1
    /\ Logged(country_code, sensitive_fields[si - 1], "FORCED_UPDATE")

\* none of the keys the manual fallback of force_section_update can extend is available
NoDefaultKey(current) ==
    \/ current.kind # "dict"
    \/ /\ ~Has(current.d, "recent_high_level_visits")
       /\ ~Has(current.d, "trade_agreements")
       /\ ~Has(current.d, "defense_agreements")
       /\ ~(Has(current.d, "current_challenges") /\ IsList(current.d["current_challenges"]))

\* C7: content returned with status FORCED_UPDATE differs from the content given; when
\* the second generation repeats the content and no default key is applicable, the
\* status is FORCE_FAILED and the content is returned unchanged
C7_ForcedUpdateVisible ==
    (pc = "log" /\ forced) =>
        /\ status = "FORCED_UPDATE" => updated_section # current_section
        /\ (force_identical /\ NoDefaultKey(current_section)) =>
              (status = "FORCE_FAILED" /\ updated_section = current_section)

\* C8: a granted update of detailed_relationship_summary whose generator repeats the
\* current text on the first and on the forced attempt runs the Resolver, stores the
\* old summary with the development string appended, and logs FORCED_UPDATE
C8_TextForcedUpdate ==
    ( /\ pc = "log"
      /\ section_name = "detailed_relationship_summary"
      /\ permission = "y"
      /\ gen_identical
      /\ forced => force_identical )
    => /\ forced
       /\ status = "FORCED_UPDATE"
       /\ updated_section =
            TextC(current_section.t \o <<" Recent developments include ">>
                  \o specific_developments \o <<".">>)

\* the run under the scheduling of the interpreter: every step that can be taken is
\* taken, and the operator eventually gives one of the accepted answers
EnhFairSpec == EnhFairInit /\ [][EnhNext]_vars /\ WF_vars(EnhNext)

\* every sensitive section of the records that were enriched before the run is as it was
SectionsUntouched ==
    \A c \in CountryCodes :
        Corpus[c].present =>
            \A s \in SectionNames : enhanced_relations[c].sec[s] = Corpus[c].sec[s]

\* C11: when every oracle call fails, enhance_bilateral_relations_selective still ends
\* after visiting every requested record, with no exception escaping and with every
\* already-populated sensitive section unchanged, whatever the operator answers
C11_RunCompletes ==
    /\ <>(oracle_answered \/ (pc = "done" /\ ci > Len(countries_to_update)))
    /\ []((pc = "done" /\ ~oracle_answered) => SectionsUntouched)

\* a run has ended in which the operator granted an update and every oracle call failed
C11_Witness ==
    /\ pc = "done"
    /\ ~oracle_answered
    /\ exhausted_keys # {}
    /\ \E i \in 1..Len(changeLog) : changeLog[i][3] = "ERROR"

\* the start of the filter loop: the batch json.loads returned
FilterInit ==
    /\ additional_updates \in UNION { [1..k -> Candidates] : k \in 0..MaxCandidates }
    /\ update_index = 1
    /\ valid_updates = <<>>
    /\ verdicts = <<>>
    /\ filter_pc = "loop"
    /\ LedgerIdle
    /\ CredIdle
    /\ EnhIdle

FilterNext == FilterUpdate \/ FilterReturn

FilterSpec == FilterInit /\ [][FilterNext]_vars

\* date strings that denote the threshold date, the day before it, and no date
OnThreshold == { Date_2025_04_02, Date_April_2_2025 }
DayBefore == { Date_2025_04_01, Date_April_1st_2025, Date_04_01_2025 }
Unparseable == { Date_soon }

\* C12: is_date_valid accepts a candidate dated on the threshold date 2025-04-02,
\* rejects one dated the day before, and returns false without raising for a string
\* in none of the accepted formats
C12_RecencyBoundary ==
    \A i \in 1..Len(verdicts) :
        LET d == additional_updates[i].announcement_date
        IN /\ d \in OnThreshold => verdicts[i] # "invalid date"
           /\ d \in DayBefore => verdicts[i] = "invalid date"
           /\ d \in Unparseable => verdicts[i] = "invalid date"

\* a batch with a threshold-dated candidate and an unparseable one has been filtered
C12_Witness ==
    /\ filter_pc = "returned"
    /\ Len(verdicts) = 2
    /\ additional_updates[1].announcement_date \in OnThreshold
    /\ verdicts[1] = "valid"
    /\ additional_updates[2].announcement_date \in Unparseable

\* source lists by what survives extraction
NoSurvivor == { <<>>, <<Cite_Wikipedia>>, <<Cite_Headline>> }
OneOrdinary == { <<Cite_Politico>> }
OneHighQuality == { <<Cite_Reuters>> }
OrdinaryPlusAllowListed == { <<Cite_Politico, Cite_PBS>> }

\* C13: validate_multiple_sources rejects a candidate with no surviving citation and
\* one with a single citation that is not high-quality, accepts one with a single
\* high-quality citation, and accepts the rejected single-citation candidate once a
\* citation from an allow-listed outlet is added
C13_SourceGating ==
    \A i \in 1..Len(verdicts) :
        LET t == additional_updates[i].source_titles
        IN verdicts[i] \notin { "invalid date", "raised" } =>
             /\ t \in NoSurvivor => verdicts[i] = "insufficient sources"
             /\ t \in OneOrdinary => verdicts[i] = "insufficient sources"
             /\ t \in OneHighQuality => verdicts[i] = "valid"
             /\ t \in OrdinaryPlusAllowListed => verdicts[i] = "valid"

\* a single-citation candidate was rejected and the same candidate with one more
\* citation was accepted
C13_Witness ==
    /\ filter_pc = "returned"
    /\ Len(verdicts) = 2
    /\ additional_updates[1].source_titles \in OneOrdinary
    /\ verdicts[1] = "insufficient sources"
    /\ additional_updates[2].source_titles \in OrdinaryPlusAllowListed
    /\ verdicts[2] = "valid"
    /\ additional_updates[2].announcement_date = additional_updates[1].announcement_date

\* the claim's test for insufficient existing data
Insufficient(name, content) ==
    \/ content.kind = "absent"
    \/ content.kind = "text" /\ (content.t = <<>> \/ StrLen(StripW(content.t)) < 50)
    \/ content.kind = "dict" /\ DictLen(content.d) <= 2

\* C14: for an enriched record, analyze_section_needs_update returns NEEDS_UPDATE with
\* no oracle call when the section is absent or empty, a text is shorter than 50
\* characters after trimming, or a structured section has at most 2 keys; otherwise it
\* issues exactly one oracle call
C14_StructuralRule ==
    [][(pc = "section" /\ ~skip_all /\ si <= Len(sensitive_fields)) =>
          IF Insufficient(section_name, enhanced_relations[country_code].sec[section_name])
          THEN oracle_calls' = oracle_calls /\ pc' = "ask" /\ needs_update'
          ELSE oracle_calls' = oracle_calls + 1]_vars

\* a two-key section was found stale before any oracle call of the run
C14_Witness ==
    /\ pc = "ask"
    /\ needs_update
    /\ oracle_calls = 0
    /\ enhanced_relations[country_code].sec[section_name].kind = "dict"
    /\ DictLen(enhanced_relations[country_code].sec[section_name].d) = 2

\* how many times u is stored in L
Occurrences(L, u) == Cardinality({ i \in 1..Len(L) : L[i] = u })

\* C15: merge_updates never removes or alters a stored entry: every entry of the
\* ledger before the merge is in the ledger after it, as often as before, with the
\* same title, date and payload, whatever the candidate batch
C15_MergePreservesEntries ==
    [][lastOp' = "merge" =>
          \A i \in 1..Len(clean_updates) :
             Occurrences(clean_updates', clean_updates[i])
                >= Occurrences(clean_updates, clean_updates[i])]_vars

\* a merge has run whose batch held a candidate with the key of a stored entry and
\* another payload; the stored entry is there and the candidate is not
C15_Witness ==
    /\ lastOp = "merge"
    /\ \E i \in 1..Len(gemini_updates) : \E j \in 1..Len(clean_updates) :
          /\ normalize_update(gemini_updates[i]) = normalize_update(clean_updates[j])
          /\ gemini_updates[i].description # clean_updates[j].description
          /\ Occurrences(clean_updates, gemini_updates[i]) = 0
    /\ \E i \in 1..Len(gemini_updates) : Occurrences(clean_updates, gemini_updates[i]) > 0

\* the decision markers the claim reads in an answer of the oracle
HasUpdateNeeded(text) ==
    Contains(Upper(text), "UPDATE NEEDED") \/ Contains(Upper(text), "UPDATE_NEEDED")

HasNoUpdate(text) ==
    Contains(Upper(text), "NO UPDATE") \/ Contains(Upper(text), "NO_UPDATE")

\* C16: in the oracle-assisted rule an answer without a decision marker, or with both
\* a NO UPDATE marker and the text UPDATE NEEDED, yields NO_UPDATE; NEEDS_UPDATE is
\* returned only for an unambiguous UPDATE NEEDED marker
C16_ConservativeParsing ==
    analysis_response.result # "none" =>
        ((pc = "ask" /\ needs_update)
            <=> (HasUpdateNeeded(analysis_response.text) /\ ~HasNoUpdate(analysis_response.text)))

\* a section that holds content
Populated(content) ==
    \/ content.kind = "text" /\ content.t # <<>>
    \/ content.kind = "dict" /\ DictLen(content.d) > 0

\* C17: whenever a populated section is about to be replaced with status UPDATED, text
\* or structured, the new content differs from the content it replaces
C17_UpdatedDiffers ==
    (pc = "log" /\ status = "UPDATED" /\ Populated(current_section))
        => updated_section # current_section

\* the status tags of the change log
LogStatuses ==
    { "UPDATED", "NO_ACTUAL_CHANGES", "FORCED_UPDATE", "FORCE_FAILED", "NO_UPDATE_NEEDED",
      "NO_CHANGE_NEEDED", "SKIPPED", "ERROR" }

\* C18: when a run of enhance_bilateral_relations_selective has ended, the change log
\* holds exactly one entry for every (record, field) analyze_section_needs_update was
\* evaluated on, in that order, and each status is one of the eight status tags
C18_ChangeLogComplete ==
    pc = "done" =>
        /\ Len(changeLog) = Len(evaluated)
        /\ \A i \in 1..Len(changeLog) :
              /\ i <= Len(evaluated) => <<changeLog[i][1], changeLog[i][2]>> = evaluated[i]
              /\ changeLog[i][3] \in LogStatuses

\* C19: after merge_updates the ledger is ordered by announcement date, newest
\* first, whichever of the accepted date formats its entries use
C19_LedgerNewestFirst ==
    lastOp = "merge" =>
        \A i, j \in 1..Len(clean_updates) :
           i < j => parse_date(clean_updates[i].announcement_date)
                       >= parse_date(clean_updates[j].announcement_date)

\* runs of blanks inside a string reduced to one blank
RECURSIVE Collapse(_)
Collapse(t) ==
    IF Len(t) < 2 THEN t
    ELSE IF t[1] = " " /\ t[2] = " " THEN Collapse(Tail(t))
    ELSE <<t[1]>> \o Collapse(Tail(t))

\* two titles that differ at most in letter case, in leading or trailing whitespace
\* and in the amount of whitespace between their words
SameWords(t1, t2) == Collapse(Strip(Lower(t1))) = Collapse(Strip(Lower(t2)))

\* C20: normalize_update gives two updates of the same date the same key whenever
\* their titles differ only in letter case, in leading or trailing whitespace or in
\* the amount of internal whitespace, and updates of different dates different keys
C20_KeyNormalization ==
    lastOp = "merge" =>
        \A i \in 1..Len(gemini_updates) : \A j \in 1..Len(clean_updates) :
           /\ ( /\ gemini_updates[i].announcement_date = clean_updates[j].announcement_date
                /\ SameWords(gemini_updates[i].title, clean_updates[j].title) )
              => normalize_update(gemini_updates[i]) = normalize_update(clean_updates[j])
           /\ gemini_updates[i].announcement_date # clean_updates[j].announcement_date
              => normalize_update(gemini_updates[i]) # normalize_update(clean_updates[j])

\* a candidate of the prompted shape: title and date are strings and it cites something
WellFormed(update) ==
    /\ IsString(update.title)
    /\ IsString(update.announcement_date)
    /\ update.source_titles # <<>>

\* C21: a malformed candidate in a generated batch raises no error, is itself left
\* out, and every valid candidate of the batch is still accepted
C21_BadCandidateIsolated ==
    filter_pc = "returned" =>
        \A i \in 1..Len(additional_updates) :
           LET update == additional_updates[i]
           IN /\ ~WellFormed(update)
                    => \A k \in 1..Len(valid_updates) : valid_updates[k] # update
              /\ ( /\ WellFormed(update)
                   /\ is_date_valid(update.announcement_date)
                   /\ validate_multiple_sources(update) )
                    => \E k \in 1..Len(valid_updates) : valid_updates[k] = update

(***************************************************************************)
(* enhance_section_selectively on its own                                  *)
(***************************************************************************)
\* the stored contents the Merger can be called on for a section
MergerInputs(name) ==
    { GetSection(Corpus[c], name) : c \in { "DEU", "FRA", "ITA" } }

\* a candidate object that repeats the stored values but for one key, whose value is
\* a one-element list
OneElementList(name, current, item) ==
    JsonR([current.d EXCEPT ![ChangeKey(name)] = ListV(<<item>>)])

\* a candidate object with a new value for one key and a placeholder for another
ChangedWithPlaceholder(name, current) ==
    JsonR([Changed(name, current).d EXCEPT !["defense_agreements"] =
                                              Str1("Keep existing value")])

\* answers the generator can give to the Merger's prompt
MergerCandidates(name, current) ==
    IF name = "detailed_relationship_summary"
    THEN { TextR(Sentinel), TextR(<<"NO UPDATE NEEDED", " ", "W25">>),
           TextR(<<"W25">>), TextR(<<"W49", " ">>), TextR(<<"W25", "W25">>),
           TextR(<<"W60">>), SameAs(current) }
    ELSE { TextR(Sentinel), TextR(<<"W25">>), BadJsonR, SameAs(current),
           Changed(name, current), Placeholders(current),
           OneElementList(name, current, "Keep existing array"),
           OneElementList(name, current, "Keep existing value"),
           OneElementList(name, current, "NO UPDATE NEEDED"),
           ChangedWithPlaceholder(name, current) }

\* a call of enhance_section_selectively for one section and one stored content
MergerInit ==
    /\ si \in 1..Len(sensitive_fields)
    /\ current_section \in MergerInputs(sensitive_fields[si])
    /\ pc = "merger"
    /\ enhanced_relations = Corpus
    /\ countries_to_update = <<>>
    /\ ci = 1
    /\ skip_all = FALSE
    /\ updated_country_data = NoRecord
    /\ country_updated = FALSE
    /\ needs_update = FALSE
    /\ specific_developments = <<>>
    /\ permission = "none"
    /\ updated_section = AbsentC
    /\ status = "none"
    /\ merger_status = "none"
    /\ gen_identical = FALSE
    /\ force_identical = FALSE
    /\ forced = FALSE
    /\ changeLog = <<>>
    /\ staleCount = 0
    /\ oracle_answered = FALSE
    /\ oracle_calls = 0
    /\ analysis_response = NoResponse
    /\ evaluated = <<>>
    /\ generated = NoGenerated
    /\ CredIdle
    /\ LedgerIdle
    /\ FilterIdle

\* the oracle call of enhance_section_selectively and everything after it
ApplyMerger ==
    /\ pc = "merger"
    /\ \E result \in { "text", "empty", "raised" } :
       \E response \in MergerCandidates(section_name, current_section) :
         LET m == enhance_section_selectively(section_name, current_section, result, response)
         IN /\ updated_section' = m[1]
            /\ status' = m[2]
            /\ generated' = IF result = "text" THEN response
                             ELSE IF result = "empty" THEN EmptyR
                             ELSE [NoGenerated EXCEPT !.kind = "raised"]
    /\ pc' = "merged"
    /\ UNCHANGED <<enhanced_relations, countries_to_update, ci, si, skip_all,
                   updated_country_data, country_updated, needs_update,
                   specific_developments, permission, current_section, merger_status,
                   gen_identical, force_identical, forced, changeLog, staleCount,
                   oracle_answered, oracle_calls, analysis_response, evaluated>>
    /\ UNCHANGED credVars
    /\ UNCHANGED ledgerVars
    /\ UNCHANGED filterVars

MergerNext == ApplyMerger

MergerSpec == MergerInit /\ [][MergerNext]_vars

\* C22: for the text section the Merger returns NO_UPDATE_NEEDED or ERROR with the
\* original content when the response is the sentinel or shorter than 50 characters,
\* and UPDATED with the whole candidate text for every other response, one of exactly
\* 50 characters included
C22_TextMergeBoundary ==
    ( /\ pc = "merged"
      /\ section_name = "detailed_relationship_summary"
      /\ generated.kind = "text" )
    => LET text == StripW(generated.t)
       IN IF text = Sentinel \/ StrLen(text) < 50
          THEN status \in { "NO_UPDATE_NEEDED", "ERROR" } /\ updated_section = current_section
          ELSE status = "UPDATED" /\ updated_section = TextC(text)


\* the instructional placeholders of the claim: the two texts, or a one-element list
\* holding one of them or the array form of the instruction
IsPlaceholder(value) ==
    \/ IsStr(value) /\ (Contains(Body(value), "Keep existing value")
                        \/ StripW(Body(value)) = Sentinel)
    \/ IsList(value) /\ Len(Body(value)) = 1
                     /\ (Contains(Body(value), "Keep existing value")
                         \/ Contains(Body(value), "Keep existing array")
                         \/ Body(value) = Sentinel)

\* the keys the claim has the Merger overwrite
Overwritten(current, candidate) ==
    { k \in SectionKeys :
        candidate[k] # Absent /\ ~IsPlaceholder(candidate[k]) /\ candidate[k] # current[k] }

\* C23: for a structured section the Merger starts from a copy of the current
\* content, skips placeholder values, overwrites a key only when the candidate value
\* differs, returns UPDATED with the merged content iff some key was overwritten, and
\* NO_ACTUAL_CHANGES with the original content otherwise
C23_StructuredMerge ==
    ( /\ pc = "merged"
      /\ section_name # "detailed_relationship_summary"
      /\ generated.kind = "json" )
    => LET keys == Overwritten(current_section.d, generated.d)
       IN IF keys # {}
          THEN /\ status = "UPDATED"
               /\ updated_section =
                     DictC([k \in SectionKeys |->
                              IF k \in keys THEN generated.d[k] ELSE current_section.d[k]])
          ELSE /\ status = "NO_ACTUAL_CHANGES"
               /\ updated_section = current_section

\* C24: when the Oracle Adapter raises or returns nothing during
\* analyze_section_needs_update the decision is NO_UPDATE with development 'None', no
\* exception leaves the detector, and the orchestrator goes on to the next field
C24_DetectorNeverAborts ==
    analysis_response.result \notin { "none", "text" } =>
        /\ ParseDecision(analysis_response.result, EmptyR)
              = [needs |-> FALSE,
                 reasoning |-> ParseDecision(analysis_response.result, EmptyR).reasoning,
                 developments |-> <<"None">>]
        /\ pc = "section"
        /\ ~needs_update
        /\ si > 1
        /\ evaluated[Len(evaluated)] = <<country_code, sensitive_fields[si - 1]>>
        /\ changeLog # <<>>
        /\ changeLog[Len(changeLog)]
              = <<country_code, sensitive_fields[si - 1], "NO_CHANGE_NEEDED">>

\* the adapter raised in one analysis and returned nothing in another of the same run
C24_Witness ==
    /\ analysis_response.result = "raised"
    /\ pc = "section"
    /\ si = 3
    /\ Len(changeLog) = 2
    /\ changeLog[1][3] = "NO_CHANGE_NEEDED"

\* C25: an interrupted wait in ask_user_permission denies that one field: it is
\* logged SKIPPED, its content stays, skip-all mode is not entered, and the next
\* field that needs an update is prompted again
C25_InterruptDeniesOneField ==
    /\ [](permission = "interrupt" =>
             /\ pc = "section"
             /\ ~skip_all
             /\ si > 1
             /\ changeLog # <<>>
             /\ changeLog[Len(changeLog)] = <<country_code, sensitive_fields[si - 1], "SKIPPED">>
             /\ updated_country_data.sec[sensitive_fields[si - 1]]
                   = enhanced_relations[country_code].sec[sensitive_fields[si - 1]])
    /\ [][(permission = "interrupt" /\ si <= Len(sensitive_fields))
            => (pc' = "ask" <=> needs_update')]_vars

\* the wait for the third field was interrupted after the first two were settled
C25_Witness ==
    /\ permission = "interrupt"
    /\ si = 4
    /\ Len(changeLog) = 3
    /\ ~skip_all

\* where the run holds section s of record c: the working copy of the record in hand,
\* the map of records otherwise
Held(c, s) ==
    IF pc \notin { "country", "done" } /\ c = country_code
    THEN updated_country_data.sec[s]
    ELSE enhanced_relations[c].sec[s]

Applied(c, s) == Logged(c, s, "UPDATED") \/ Logged(c, s, "FORCED_UPDATE")

C27_NoOracleAfterSkipAll ==
    [][ skip_all => oracle_calls' = oracle_calls ]_vars

\* the part of the generated file the last approval round appended
Appended(before, after) == SubSeq(after, Len(before) + 1, Len(after))

\* C28: an approval round returns presented updates only, each position at most once,
\* so it appends no presented candidate twice
C28_SelectionDuplicateFree ==
    /\ [](\A i, j \in 1..Len(approved_numbers) :
            approved_numbers[i] = approved_numbers[j] => i = j)
    /\ [][ lastOp' = "analysis" =>
            Len(Appended(gemini_updates, gemini_updates')) = Len(approved_numbers') ]_vars

\* every citation that survives names the same issuer, and it is not high-quality
SingleOrdinaryIssuer(source_titles) ==
    LET source_names == extract_source_names(source_titles)
    IN /\ Len(source_names) >= 1
       /\ \A k \in 1..Len(source_names) : source_names[k] = source_names[1]
       /\ ~HighQuality(source_names[1])

\* C29: a candidate whose citations all name one issuer that is not high-quality is
\* rejected by validate_multiple_sources, however often the citation is repeated
C29_DistinctIssuers ==
    \A i \in 1..Len(verdicts) :
        (verdicts[i] \notin { "invalid date", "raised" }
           /\ SingleOrdinaryIssuer(additional_updates[i].source_titles))
        => verdicts[i] = "insufficient sources"

\* the run has stored record c and moved on
Finished(c) == \E i \in 1..Len(countries_to_update) : countries_to_update[i] = c /\ i < ci

\* C30: an enriched record gets new enhanced_analysis_date and last_selective_update
\* exactly when one of its sections was logged UPDATED or FORCED_UPDATE in the run;
\* a record none of whose sections was applied is stored with every key as it was
C30_TimestampsFollowUpdates ==
    \A c \in SourceCountries :
        Corpus[c].present =>
            IF Finished(c) /\ \E s \in SectionNames : Applied(c, s)
            THEN /\ enhanced_relations[c].enhanced_analysis_date = "now"
                 /\ enhanced_relations[c].last_selective_update = "now"
            ELSE enhanced_relations[c] = Corpus[c]

\* the run returned two records: one with an applied section and new timestamps, one
\* whose fields were all evaluated and left alone, stored as it was
C30_Witness ==
    /\ pc = "done"
    /\ countries_to_update = <<"GBR", "DEU">>
    /\ Applied("GBR", "economic_cooperation")
    /\ enhanced_relations["GBR"].last_selective_update = "now"
    /\ Len(changeLog) = 10
    /\ enhanced_relations["DEU"] = Corpus["DEU"]

====
